---------------------------- MODULE Spec2Model ----------------------------
(***************************************************************************)
(* A model of the hardware detection layer of llm-neofetch-plus:           *)
(* the command runner (BaseDetector.run_command), the GPU and disk probes, *)
(* the disk benchmark and the collector (LLMNeofetch.collect_system_info). *)
(*                                                                         *)
(* Text is a sequence of one-character strings, so that stripping,         *)
(* substring tests and ordering are computed rather than assumed.          *)
(* A call's outcome is a record [exc, val]: exc = "none" and the returned  *)
(* value, or the class of the exception that escaped the call.             *)
(* An optional value (Python's None) is <<>> for None and <<v>> for v.     *)
(***************************************************************************)
EXTENDS Integers, Sequences, FiniteSets, TLC

VARIABLES
    rcPc,        \* run_command: "idle", "call" or "done"
    rcProc,      \* run_command: what the spawned shell command does
    rcTimeout,   \* run_command: the timeout argument
    rcRet,       \* run_command: the outcome of the call
    rcElapsed,   \* run_command: the time the call took
    now,         \* the wall clock, in seconds
    fileExists,  \* whether .llm_neofetch_benchmark.tmp exists in the target directory
    bnPc,        \* benchmark_speed: the position in the function
    bnPath,      \* benchmark_speed: the path argument
    bnSize,      \* benchmark_speed: the size_mb argument
    bnTimeout,   \* benchmark_speed: the timeout argument
    bnCalled,    \* benchmark_speed: the clock when the call was made
    bnStart,     \* benchmark_speed: the local start
    bnWriteTime, \* benchmark_speed: the local write_time
    bnReadTime,  \* benchmark_speed: the local read_time
    bnExc,       \* benchmark_speed: the class of the exception caught, or "none"
    bnRet,       \* benchmark_speed: the outcome of the call
    platform,    \* sys.platform of the host
    partitions,  \* what psutil.disk_partitions reports, with each volume's behaviour
    dkPc,        \* DiskDetector.detect: "idle", "call" or "done"
    dkScan,      \* DiskDetector.detect: the outcome of the loop over the partitions
    dkRet,       \* DiskDetector.detect: the outcome of the call
    wmiAvailable,\* WMI_AVAILABLE: whether the wmi module could be imported
    gpuPc,       \* GPUDetector.detect: "idle", "call" or "done"
    gpuCalls,    \* GPUDetector.detect: what each sub-probe returned
    gpuRet,      \* GPUDetector.detect: the outcome of the call
    coPc,        \* collect_system_info: the position in the function
    coBenchmark, \* collect_system_info: the benchmark argument
    coCall,      \* the number of the call of collect_system_info
    info,        \* collect_system_info: the local info
    coBefore,    \* info as it was when line 139 was reached
    coStarted,   \* the probes called in this call, in order
    coReturned,  \* the probes that returned in this call, in order
    coRaised,    \* the class of the exception that ended a call, or "none"
    prevKeys,    \* the keys of the snapshot the previous call returned
    coAnswers,   \* what the host answered to each probe of this call, kept
                 \* until the benchmark starts
    coOrder,     \* the order in which the probes of this call are run
    prevCall,    \* the answers and the snapshot of the previous call, or None
    prCall,      \* a single probe called on its own: its name and arguments
    prRet        \* what that call returned or raised

rcVars == <<rcPc, rcProc, rcTimeout, rcRet, rcElapsed>>

bnVars ==
    <<now, fileExists, bnPc, bnPath, bnSize, bnTimeout, bnCalled, bnStart,
      bnWriteTime, bnReadTime, bnExc, bnRet>>

dkVars == <<partitions, dkPc, dkScan, dkRet>>

gpuVars == <<wmiAvailable, gpuPc, gpuCalls, gpuRet>>

coVars ==
    <<coPc, coBenchmark, coCall, info, coBefore, coStarted, coReturned,
      coRaised, prevKeys, coAnswers, coOrder, prevCall>>

prVars == <<prCall, prRet>>

vars == <<rcVars, bnVars, platform, dkVars, gpuVars, coVars, prVars>>

----------------------------------------------------------------------------
(* Bounds of the model *)

\* longest uptime, in days
MaxDays == 3

\* longest standard output of a command, in characters
MaxOut == 3
\* longest running time of a command that exits, in seconds
MaxDur == 2
\* most partitions the host reports
MaxParts == 4
\* most lines a vendor tool prints, and most devices the host enumerates
MaxLines == 2

\* the calls of collect_system_info on one host
MaxCalls == 2

----------------------------------------------------------------------------
(* Outcomes of calls *)

Ret(v) == [exc |-> "none", val |-> v]

Raise(e) == [exc |-> e, val |-> <<>>]

None == <<>>

Some(v) == <<v>>

\* the exception classes the model raises; all derive from Exception
ExceptionClasses ==
    {"TimeoutExpired", "CalledProcessError", "FileNotFoundError",
     "PermissionError", "OSError", "ValueError", "AttributeError",
     "KeyError", "NotImplementedError", "MemoryError"}

----------------------------------------------------------------------------
(* Text *)

Whitespace == {" ", "\n", "\t", "\r"}

RECURSIVE LStrip(_)
LStrip(s) ==
    IF s # <<>> /\ Head(s) \in Whitespace THEN LStrip(Tail(s)) ELSE s

RECURSIVE RStrip(_)
RStrip(s) ==
    IF s # <<>> /\ s[Len(s)] \in Whitespace
    THEN RStrip(SubSeq(s, 1, Len(s) - 1))
    ELSE s

\* str.strip()
Strip(s) == RStrip(LStrip(s))

\* sub in s
Contains(s, sub) ==
    \E i \in 1..(Len(s) - Len(sub) + 1) : SubSeq(s, i, i + Len(sub) - 1) = sub

----------------------------------------------------------------------------
(* BaseDetector.run_command *)

DefaultCmdTimeout == 5

\* a command that never exits
Forever == 0 - 1

\* What the shell command does: it exits with a status and a standard output
\* after dur seconds (or never), or it cannot be spawned, or reading it fails.
Procs ==
    [kind : {"exit"}, code : {0, 1, 127},
     out : UNION {[1..k -> {" ", "\n", "a"}] : k \in 0..MaxOut},
     dur : (0..MaxDur) \cup {Forever}]
    \cup [kind : {"spawn_fail", "other_failure"}, code : {0}, out : {<<>>},
          dur : {0}]

TimedOut(proc, timeout) ==
    proc.kind = "exit" /\ (proc.dur = Forever \/ proc.dur > timeout)

\* subprocess.check_output(cmd, shell=True, text=True, timeout=timeout)
CheckOutput(proc, timeout) ==
    IF proc.kind = "spawn_fail" THEN Raise("FileNotFoundError")
    ELSE IF proc.kind = "other_failure" THEN Raise("OSError")
    ELSE IF TimedOut(proc, timeout) THEN Raise("TimeoutExpired")
    ELSE IF proc.code # 0 THEN Raise("CalledProcessError")
    ELSE Ret(proc.out)

\* run_command without the catch-all handler
RunCommandNoCatchAll(proc, timeout) ==
    LET r == CheckOutput(proc, timeout) IN
    IF r.exc = "none" THEN Ret(Strip(r.val))
    ELSE IF r.exc \in {"TimeoutExpired", "CalledProcessError", "FileNotFoundError"}
    THEN Ret(<<>>)
    ELSE r

RunCommand(proc, timeout) ==
    LET r == CheckOutput(proc, timeout) IN
    IF r.exc = "none" THEN Ret(Strip(r.val))
    ELSE IF r.exc \in {"TimeoutExpired", "CalledProcessError", "FileNotFoundError"}
    THEN Ret(<<>>)
    ELSE IF r.exc \in ExceptionClasses THEN Ret(<<>>)
    ELSE r

\* the time a run_command call takes: the child is killed at the timeout
RunCommandElapsed(proc, timeout) ==
    IF TimedOut(proc, timeout) THEN timeout ELSE proc.dur

RunIdle ==
    /\ rcPc = "idle"
    /\ rcProc = [kind |-> "exit", code |-> 0, out |-> <<>>, dur |-> 0]
    /\ rcTimeout = DefaultCmdTimeout
    /\ rcRet = Ret(<<>>)
    /\ rcElapsed = 0

RunCommandCall ==
    /\ rcPc = "call"
    /\ rcRet' = RunCommand(rcProc, rcTimeout)
    /\ rcElapsed' = RunCommandElapsed(rcProc, rcTimeout)
    /\ rcPc' = "done"
    /\ UNCHANGED <<rcProc, rcTimeout>>
    /\ UNCHANGED <<bnVars, platform, dkVars, gpuVars, coVars, prVars>>

----------------------------------------------------------------------------
(* Numbers: Python's true division a / b of two numbers is the exact       *)
(* fraction, kept as numerator and denominator.                            *)

Div(a, b) == [num |-> a, den |-> b]

Zero == [num |-> 0, den |-> 1]

----------------------------------------------------------------------------
(* DiskDetector.benchmark_speed *)

DefaultSizeMb == 100

DefaultBenchTimeout == 30

\* the directories a benchmark is run in
HomeDir == <<"~">>

\* how long a phase of the benchmark may take, around the timeout
PhaseDurations(timeout) == (0..MaxDur) \cup {timeout, timeout + 1}

\* what fails while the file is written, read or removed
IoErrors == {"PermissionError", "OSError"}

BenchIdle ==
    /\ now = 0
    /\ fileExists = FALSE
    /\ bnPc = "idle"
    /\ bnPath = HomeDir
    /\ bnSize = DefaultSizeMb
    /\ bnTimeout = DefaultBenchTimeout
    /\ bnCalled = 0
    /\ bnStart = 0
    /\ bnWriteTime = 0
    /\ bnReadTime = 0
    /\ bnExc = "none"
    /\ bnRet = Ret(None)

\* lines 466-471: start = time.time(); the buffer is built, the file is
\* opened for writing, written, flushed and synced
BenchWrite ==
    /\ UNCHANGED <<prVars, rcVars, platform, dkVars, gpuVars, coVars>>
    /\ bnPc = "write"
    /\ bnStart' = now
    /\ \/ \* the file is written
          /\ \E d \in PhaseDurations(bnTimeout) : now' = now + d
          /\ fileExists' = TRUE
          /\ bnPc' = "timed"
          /\ UNCHANGED bnExc
       \/ \* the buffer cannot be built, or the file cannot be opened
          /\ \E e \in IoErrors \cup {"MemoryError"} : bnExc' = e
          /\ bnPc' = "except"
          /\ UNCHANGED <<now, fileExists>>
       \/ \* the file is created, and writing or syncing it fails
          /\ \E e \in IoErrors : bnExc' = e
          /\ \E d \in PhaseDurations(bnTimeout) : now' = now + d
          /\ fileExists' = TRUE
          /\ bnPc' = "except"
    /\ UNCHANGED <<bnPath, bnSize, bnTimeout, bnCalled, bnWriteTime, bnReadTime, bnRet>>

\* the write phase's check with the early return left out
WriteTooSlowNever(writeTime, timeout) == FALSE

\* line 474: write_time > timeout
WriteTooSlow(writeTime, timeout) == writeTime > timeout

\* lines 472-475: write_time = time.time() - start; return None when it
\* exceeds the timeout
BenchCheckWriteTime ==
    /\ UNCHANGED <<prVars, rcVars, platform, dkVars, gpuVars, coVars>>
    /\ bnPc = "timed"
    /\ bnWriteTime' = now - bnStart
    /\ IF WriteTooSlow(now - bnStart, bnTimeout)
       THEN bnRet' = Ret(None) /\ bnPc' = "done"
       ELSE bnRet' = bnRet /\ bnPc' = "read"
    /\ UNCHANGED <<now, fileExists, bnPath, bnSize, bnTimeout, bnCalled, bnStart,
                   bnReadTime, bnExc>>

\* lines 477-480: start = time.time(); the file is read back;
\* read_time = time.time() - start
BenchRead ==
    /\ UNCHANGED <<prVars, rcVars, platform, dkVars, gpuVars, coVars>>
    /\ bnPc = "read"
    /\ \/ \* opening or reading the file fails
          /\ \E e \in IoErrors : bnExc' = e
          /\ bnStart' = now
          /\ bnPc' = "except"
          /\ UNCHANGED <<now, bnReadTime>>
       \/ /\ \E d \in PhaseDurations(bnTimeout) :
                /\ now' = now + d
                /\ bnReadTime' = d
          /\ bnStart' = now
          /\ bnPc' = "remove"
          /\ UNCHANGED bnExc
    /\ UNCHANGED <<fileExists, bnPath, bnSize, bnTimeout, bnCalled, bnWriteTime, bnRet>>

\* line 482: os.remove(test_file)
BenchRemove ==
    /\ UNCHANGED <<prVars, rcVars, platform, dkVars, gpuVars, coVars>>
    /\ bnPc = "remove"
    /\ \/ /\ \E e \in IoErrors : bnExc' = e
          /\ bnPc' = "except"
          /\ UNCHANGED fileExists
       \/ /\ fileExists' = FALSE
          /\ bnPc' = "result"
          /\ UNCHANGED bnExc
    /\ UNCHANGED <<now, bnPath, bnSize, bnTimeout, bnCalled, bnStart, bnWriteTime,
                   bnReadTime, bnRet>>

\* lines 485-486: size_mb / elapsed if elapsed > 0 else 0
Speed(sizeMb, elapsed) ==
    IF elapsed > 0 THEN Div(sizeMb, elapsed) ELSE Zero

\* lines 484-487: the result
BenchResult ==
    /\ UNCHANGED <<prVars, rcVars, platform, dkVars, gpuVars, coVars>>
    /\ bnPc = "result"
    /\ bnRet' = Ret(Some([read_mb_s |-> Speed(bnSize, bnReadTime),
                          write_mb_s |-> Speed(bnSize, bnWriteTime)]))
    /\ bnPc' = "done"
    /\ UNCHANGED <<now, fileExists, bnPath, bnSize, bnTimeout, bnCalled, bnStart,
                   bnWriteTime, bnReadTime, bnExc>>

\* lines 489-496: the handler removes the file when it exists, ignoring a
\* failure of the removal, and returns None
BenchExcept ==
    /\ UNCHANGED <<prVars, rcVars, platform, dkVars, gpuVars, coVars>>
    /\ bnPc = "except"
    /\ IF fileExists
       THEN \/ fileExists' = FALSE
            \/ fileExists' = TRUE
       ELSE fileExists' = FALSE
    /\ bnRet' = Ret(None)
    /\ bnPc' = "done"
    /\ UNCHANGED <<now, bnPath, bnSize, bnTimeout, bnCalled, bnStart, bnWriteTime,
                   bnReadTime, bnExc>>

----------------------------------------------------------------------------
(* Text constants and the order of characters *)

\* the characters of the model, in code-point order
CodeOrder ==
    <<" ", ",", "-", ".", "/", "0", "1", "2", "3", "4", "5", "6", "7", "8",
      "9", ":", "A", "B", "C", "D", "E", "F", "G", "H", "I", "J", "K", "L",
      "M", "N", "O", "P", "Q", "R", "S", "T", "U", "V", "W", "X", "Y", "Z",
      "[", "\\", "]", "_", "a", "b", "c", "d", "e", "f", "g", "h", "i", "j",
      "k", "l", "m", "n", "o", "p", "q", "r", "s", "t", "u", "v", "w", "x",
      "y", "z">>

CodeTable ==
    [c \in {CodeOrder[i] : i \in 1..Len(CodeOrder)} |->
        CHOOSE i \in 1..Len(CodeOrder) : CodeOrder[i] = c]

\* ord(c), up to the order
Code(c) == CodeTable[c]

UpperCase ==
    <<"A", "B", "C", "D", "E", "F", "G", "H", "I", "J", "K", "L", "M", "N",
      "O", "P", "Q", "R", "S", "T", "U", "V", "W", "X", "Y", "Z">>

LowerCase ==
    <<"a", "b", "c", "d", "e", "f", "g", "h", "i", "j", "k", "l", "m", "n",
      "o", "p", "q", "r", "s", "t", "u", "v", "w", "x", "y", "z">>

LowerTable ==
    [c \in {UpperCase[i] : i \in 1..Len(UpperCase)} |->
        LowerCase[CHOOSE i \in 1..Len(UpperCase) : UpperCase[i] = c]]

LowerChar(c) == IF c \in DOMAIN LowerTable THEN LowerTable[c] ELSE c

\* str.lower()
Lower(s) == [i \in 1..Len(s) |-> LowerChar(s[i])]

\* str.startswith(prefix)
StartsWith(s, prefix) ==
    Len(s) >= Len(prefix) /\ SubSeq(s, 1, Len(prefix)) = prefix

\* s < t for two texts: the first differing character decides, and a proper
\* prefix is smaller
RECURSIVE TextLess(_, _)
TextLess(s, t) ==
    IF t = <<>> THEN FALSE
    ELSE IF s = <<>> THEN TRUE
    ELSE IF Head(s) = Head(t) THEN TextLess(Tail(s), Tail(t))
    ELSE Code(Head(s)) < Code(Head(t))

\* sys.platform on the hosts of the model
Platforms ==
    {<<"l", "i", "n", "u", "x">>, <<"w", "i", "n", "3", "2">>,
     <<"d", "a", "r", "w", "i", "n">>,
     <<"f", "r", "e", "e", "b", "s", "d", "1", "4">>}

IsLinux(p) == StartsWith(p, <<"l", "i", "n", "u", "x">>)

IsWindows(p) == StartsWith(p, <<"w", "i", "n">>)

IsDarwin(p) == p = <<"d", "a", "r", "w", "i", "n">>

----------------------------------------------------------------------------
(* DiskDetector *)

\* disks[:3]
DiskCap == 3

\* the texts psutil.disk_partitions reports on the hosts of the model, and
\* the contents of the rotational pseudo-file
DiskText ==
    [sda1 |-> <<"/", "d", "e", "v", "/", "s", "d", "a", "1">>,
     nvme |-> <<"/", "d", "e", "v", "/", "n", "v", "m", "e", "0", "n",
       "1">>,
     sdb1 |-> <<"/", "d", "e", "v", "/", "s", "d", "b", "1">>,
     loop0 |-> <<"/", "d", "e", "v", "/", "l", "o", "o", "p", "0">>,
     sdc1 |-> <<"/", "d", "e", "v", "/", "s", "d", "c", "1">>,
     nfs |-> <<"s", "r", "v", ":", "/", "x">>,
     c_drive |-> <<"C", ":", "\\">>,
     root |-> <<"/">>,
     home |-> <<"/", "h", "o", "m", "e">>,
     boot |-> <<"/", "b", "o", "o", "t">>,
     snap |-> <<"/", "s", "n", "a", "p">>,
     data |-> <<"/", "d", "a", "t", "a">>,
     net |-> <<"/", "n", "e", "t">>,
     win |-> <<"/", "w", "i", "n">>,
     c_root |-> <<"C", ":", "\\">>,
     ext4 |-> <<"e", "x", "t", "4">>,
     ntfs |-> <<"n", "t", "f", "s">>,
     rw |-> <<"r", "w">>,
     windows |-> <<"r", "w", ",", "W", "i", "n", "d", "o", "w", "s">>,
     rotational |-> <<"1", "\n">>,
     flash |-> <<"0", "\n">>]

\* what psutil.disk_usage returns for a volume
UsageOf(total, used) ==
    Ret([total |-> total, used |-> used, free |-> total - used,
         percent |-> (used * 100) \div total])

\* A mounted volume as psutil.disk_partitions reports it (device, mountpoint,
\* fstype, opts), with what the host answers for it: the outcome of
\* psutil.disk_usage(mountpoint) and the content of its rotational
\* pseudo-file (None when it cannot be read).
Volume(device, mountpoint, fstype, opts, usage, rotational) ==
    [device |-> device, mountpoint |-> mountpoint, fstype |-> fstype,
     opts |-> opts, usage |-> usage, rotational |-> rotational]

HostVolumes ==
    {Volume(DiskText.sda1, DiskText.root, DiskText.ext4, DiskText.rw,
            UsageOf(100, 40), Some(DiskText.rotational)),
     Volume(DiskText.nvme, DiskText.home, DiskText.ext4, DiskText.rw,
            UsageOf(500, 100), None),
     Volume(DiskText.sdb1, DiskText.boot, DiskText.ext4, DiskText.rw,
            UsageOf(10, 1), Some(DiskText.flash)),
     Volume(DiskText.loop0, DiskText.snap, DiskText.ext4, DiskText.rw,
            UsageOf(1, 1), None),
     Volume(DiskText.sdc1, DiskText.data, <<>>, DiskText.rw,
            UsageOf(10, 1), None),
     Volume(DiskText.sdc1, DiskText.data, DiskText.ext4, DiskText.rw,
            Raise("PermissionError"), None),
     Volume(DiskText.nfs, DiskText.net, DiskText.ext4, DiskText.rw,
            Raise("OSError"), None),
     Volume(DiskText.sdb1, DiskText.win, DiskText.ntfs, DiskText.windows,
            UsageOf(200, 50), Some(DiskText.flash)),
     Volume(DiskText.c_drive, DiskText.c_root, DiskText.ntfs, DiskText.rw,
            UsageOf(200, 50), None)}

\* re.search(r"/dev/([a-z]+)", device_lower) finds a match
HasDevName(deviceLower) ==
    \E i \in 1..(Len(deviceLower) - 5) :
        /\ SubSeq(deviceLower, i, i + 4) = <<"/", "d", "e", "v", "/">>
        /\ \E k \in 1..Len(LowerCase) : LowerCase[k] = deviceLower[i + 5]

\* _detect_disk_type asking the rotational pseudo-file first
DetectDiskTypeRotationalFirst(device, plat, rotational) ==
    LET device_lower == Lower(device) IN
    IF IsLinux(plat) /\ HasDevName(device_lower) /\ rotational # None
    THEN IF Strip(rotational[1]) = <<"0">> THEN "SSD" ELSE "HDD"
    ELSE IF Contains(device_lower, <<"n", "v", "m", "e">>) THEN "NVMe"
    ELSE IF Contains(device_lower, <<"s", "s", "d">>) THEN "SSD"
    ELSE "Unknown"

\* _detect_disk_type looking for "ssd" in the path before the pseudo-file
DetectDiskTypeSsdNameFirst(device, plat, rotational) ==
    LET device_lower == Lower(device) IN
    IF Contains(device_lower, <<"n", "v", "m", "e">>) THEN "NVMe"
    ELSE IF Contains(device_lower, <<"s", "s", "d">>) THEN "SSD"
    ELSE IF IsLinux(plat) /\ HasDevName(device_lower) /\ rotational # None
    THEN IF Strip(rotational[1]) = <<"0">> THEN "SSD" ELSE "HDD"
    ELSE "Unknown"

\* lines 415-444
DetectDiskType(device, plat, rotational) ==
    LET device_lower == Lower(device) IN
    IF Contains(device_lower, <<"n", "v", "m", "e">>) THEN "NVMe"
    ELSE IF IsLinux(plat) /\ HasDevName(device_lower) /\ rotational # None
    THEN IF Strip(rotational[1]) = <<"0">> THEN "SSD" ELSE "HDD"
    ELSE IF Contains(device_lower, <<"s", "s", "d">>) THEN "SSD"
    ELSE "Unknown"

\* lines 383-386
IsSystemVolume(p) ==
    \/ p.mountpoint \in {<<"/">>, <<"C", ":", "\\">>}
    \/ Contains(p.opts, <<"W", "i", "n", "d", "o", "w", "s">>)

\* lines 393-403
DiskInfo(p, usage, plat) ==
    [mountpoint |-> p.mountpoint, device |-> p.device, fstype |-> p.fstype,
     total_bytes |-> usage.total, used_bytes |-> usage.used,
     free_bytes |-> usage.free, percent |-> usage.percent,
     type |-> DetectDiskType(p.device, plat, p.rotational),
     is_system |-> IsSystemVolume(p)]

\* the loop left at the first partition whose usage read is denied
RECURSIVE ScanPartitionsStopAtDenied(_, _, _)
ScanPartitionsStopAtDenied(parts, plat, disks) ==
    IF parts = <<>> THEN Ret(disks)
    ELSE LET p == Head(parts) IN
         IF p.fstype = <<>> \/ Contains(p.device, <<"l", "o", "o", "p">>)
         THEN ScanPartitionsStopAtDenied(Tail(parts), plat, disks)
         ELSE IF p.usage.exc = "none"
         THEN ScanPartitionsStopAtDenied(Tail(parts), plat,
                             Append(disks, DiskInfo(p, p.usage.val, plat)))
         ELSE IF p.usage.exc = "PermissionError"
         THEN Ret(disks)
         ELSE Raise(p.usage.exc)

\* lines 379-408: the loop over the partitions, from the list so far; an
\* error of disk_usage other than PermissionError leaves the loop and the
\* function
RECURSIVE ScanPartitions(_, _, _)
ScanPartitions(parts, plat, disks) ==
    IF parts = <<>> THEN Ret(disks)
    ELSE LET p == Head(parts) IN
         IF p.fstype = <<>> \/ Contains(p.device, <<"l", "o", "o", "p">>)
         THEN ScanPartitions(Tail(parts), plat, disks)
         ELSE IF p.usage.exc = "none"
         THEN ScanPartitions(Tail(parts), plat,
                             Append(disks, DiskInfo(p, p.usage.val, plat)))
         ELSE IF p.usage.exc = "PermissionError"
         THEN ScanPartitions(Tail(parts), plat, disks)
         ELSE Raise(p.usage.exc)

\* the sort key with the system flag not negated
SortKeyLessSystemLast(a, b) ==
    IF a.is_system # b.is_system
    THEN b.is_system
    ELSE TextLess(a.mountpoint, b.mountpoint)

\* line 410: (not a.is_system, a.mountpoint) < (not b.is_system, b.mountpoint)
SortKeyLess(a, b) ==
    IF a.is_system # b.is_system
    THEN a.is_system
    ELSE TextLess(a.mountpoint, b.mountpoint)

RECURSIVE InsertSorted(_, _)
InsertSorted(d, sorted) ==
    IF sorted = <<>> THEN <<d>>
    ELSE IF SortKeyLess(d, Head(sorted)) THEN <<d>> \o sorted
    ELSE <<Head(sorted)>> \o InsertSorted(d, Tail(sorted))

\* list.sort: stable, ascending by the key
RECURSIVE SortDisks(_)
SortDisks(disks) ==
    IF disks = <<>> THEN <<>>
    ELSE InsertSorted(disks[Len(disks)],
                      SortDisks(SubSeq(disks, 1, Len(disks) - 1)))

\* detect cutting the list to three before sorting it
DiskDetectCutFirst(parts, plat) ==
    LET scan == ScanPartitions(parts, plat, <<>>) IN
    IF scan.exc # "none" THEN scan
    ELSE LET disks == scan.val IN
         Ret(SortDisks(SubSeq(disks, 1, IF Len(disks) < DiskCap
                                        THEN Len(disks) ELSE DiskCap)))

\* lines 370-412
DiskDetect(parts, plat) ==
    LET scan == ScanPartitions(parts, plat, <<>>) IN
    IF scan.exc # "none" THEN scan
    ELSE LET disks == SortDisks(scan.val) IN
         Ret(SubSeq(disks, 1, IF Len(disks) < DiskCap THEN Len(disks) ELSE DiskCap))

DiskIdle ==
    /\ platform = <<"l", "i", "n", "u", "x">>
    /\ partitions = <<>>
    /\ dkPc = "idle"
    /\ dkScan = Ret(<<>>)
    /\ dkRet = Ret(<<>>)

DiskDetectCall ==
    /\ UNCHANGED <<prVars, rcVars, bnVars, gpuVars, coVars>>
    /\ dkPc = "call"
    /\ dkScan' = ScanPartitions(partitions, platform, <<>>)
    /\ dkRet' = DiskDetect(partitions, platform)
    /\ dkPc' = "done"
    /\ UNCHANGED <<platform, partitions>>

----------------------------------------------------------------------------
(* Splitting and number parsing *)

\* s.split(sep) for a one-character separator: never an empty list
RECURSIVE Split(_, _)
Split(s, sep) ==
    IF \A i \in 1..Len(s) : s[i] # sep THEN <<s>>
    ELSE LET k == CHOOSE i \in 1..Len(s) :
                      s[i] = sep /\ \A j \in 1..(i - 1) : s[j] # sep
         IN <<SubSeq(s, 1, k - 1)>> \o Split(SubSeq(s, k + 1, Len(s)), sep)

\* s.splitlines(): a final line break opens no further line
SplitLines(s) ==
    IF s = <<>> THEN <<>>
    ELSE LET parts == Split(s, "\n") IN
         IF parts[Len(parts)] = <<>>
         THEN SubSeq(parts, 1, Len(parts) - 1)
         ELSE parts

\* "\n".join(lines)
RECURSIVE JoinLines(_)
JoinLines(lines) ==
    IF lines = <<>> THEN <<>>
    ELSE IF Len(lines) = 1 THEN lines[1]
    ELSE lines[1] \o <<"\n">> \o JoinLines(Tail(lines))

Digits == <<"0", "1", "2", "3", "4", "5", "6", "7", "8", "9">>

DigitSet == {Digits[i] : i \in 1..Len(Digits)}

DigitValue(c) == (CHOOSE i \in 1..Len(Digits) : Digits[i] = c) - 1

RECURSIVE DigitsValue(_)
DigitsValue(s) ==
    IF s = <<>> THEN 0
    ELSE 10 * DigitsValue(SubSeq(s, 1, Len(s) - 1)) + DigitValue(s[Len(s)])

\* float(text) for the texts of the model (digits, letters, punctuation, with
\* no decimal point and no exponent): a signed run of digits is a number,
\* anything else raises ValueError
ParseFloat(text) ==
    LET signed == text # <<>> /\ text[1] \in {"-", "+"}
        body == IF signed THEN Tail(text) ELSE text
    IN IF body # <<>> /\ \A i \in 1..Len(body) : body[i] \in DigitSet
       THEN Ret(IF signed /\ text[1] = "-"
                THEN 0 - DigitsValue(body)
                ELSE DigitsValue(body))
       ELSE Raise("ValueError")

----------------------------------------------------------------------------
(* GPUDetector *)

MibPerGb == 1024

BytesPerGb == 1024 * 1024 * 1024

SentinelName ==
    <<"N", "o", " ", "d", "e", "d", "i", "c", "a", "t", "e", "d", " ", "G",
      "P", "U", " ", "d", "e", "t", "e", "c", "t", "e", "d">>

\* lines 190-197
SentinelGpu ==
    [vendor |-> "Unknown", name |-> SentinelName, vram_total_gb |-> Zero,
     vram_used_gb |-> Zero, utilization_percent |-> Zero,
     temperature_c |-> Some(Zero)]

\* a command that exits with status 0 at once, printing out
Prints(out) == [kind |-> "exit", code |-> 0, out |-> out, dur |-> 0]

ExitsNonZero == [kind |-> "exit", code |-> 1, out |-> <<>>, dur |-> 0]

Hangs == [kind |-> "exit", code |-> 0, out |-> <<>>, dur |-> Forever]

\* a vendor tool: whether shutil.which finds it, and what its command does
Tool(which, proc) == [which |-> which, proc |-> proc]

NoTool == Tool(FALSE, ExitsNonZero)

\* what the vendor tools print and how the video controllers are named on
\* the hosts of the model
GpuText ==
    [nv_good |-> <<"G", "T", "X", ",", "8", "1", "9", "2", ",", "1", "0", "2",
       "4", ",", "3", "5", ",", "6", "0">>,
     nv_no_temp |-> <<"G", "T", "X", ",", "8", "1", "9", "2", ",", "1",
       "0", "2", "4", ",", "3", "5", ",", "[", "N", "/", "A", "]">>,
     nv_short |-> <<"G", "T", "X", ",", "8", "1", "9", "2", ",", "1", "0",
       "2", "4">>,
     nv_bad_number |-> <<"G", "T", "X", ",", "[", "N", "/", "A", "]", ",",
       "1", "0", "2", "4", ",", "3", "5", ",", "6", "0">>,
     nv_long |-> <<"R", "T", "X", ",", " ", "4", "0", "9", "6", ",", " ",
       "5", "1", "2", ",", " ", "7", ",", " ", "5", "5", ",", " ", "P",
       "0">>,
     amd_card |-> <<"G", "P", "U", "[", "0", "]", ":", " ", "R", "X">>,
     amd_two_colons |-> <<"C", "a", "r", "d", ":", " ", "R", "X", ":", " ",
       "X", "T">>,
     amd_second_line |-> <<"R", "O", "C", "m", "\n", "C", "a", "r", "d",
       ":", " ", "R", "9">>,
     amd_no_colon |-> <<"G", "P", "U", " ", "R", "X">>,
     intel_listed |-> <<"[", "g", "p", "u", "]", " ", "I", "n", "t", "e",
       "l", " ", "A", "r", "c">>,
     intel_not_listed |-> <<"[", "c", "p", "u", "]", " ", "A", "M", "D">>,
     ctrl_nvidia |-> <<"N", "V", "I", "D", "I", "A", " ", "G", "T", "X",
       " ">>,
     ctrl_radeon |-> <<"R", "a", "d", "e", "o", "n", " ", "R", "X">>,
     ctrl_basic |-> <<"B", "a", "s", "i", "c", " ", "V", "G", "A">>]

\* nvidia-smi not installed, failing, hanging, or printing up to MaxLines
\* lines, each one of the lines it may print for a device
NvidiaTools ==
    {NoTool, Tool(TRUE, ExitsNonZero), Tool(TRUE, Hangs)}
    \cup {Tool(TRUE, Prints(JoinLines(ls))) :
            ls \in UNION {[1..n -> {GpuText.nv_good, GpuText.nv_no_temp,
                                    GpuText.nv_short, GpuText.nv_bad_number,
                                    GpuText.nv_long}] : n \in 0..MaxLines}}

\* lines 222-238: one line of the output; a line with fewer than five fields
\* or a field float() rejects gives no record
NvidiaLine(line) ==
    LET fields == Split(line, ",")
        parts == [i \in 1..Len(fields) |-> Strip(fields[i])]
    IN IF Len(parts) >= 5
       THEN LET total == ParseFloat(parts[2])
                used == ParseFloat(parts[3])
                util == ParseFloat(parts[4])
                temp == IF parts[5] # <<"[", "N", "/", "A", "]">>
                        THEN ParseFloat(parts[5])
                        ELSE Ret(0)
            IN IF \A r \in {total, used, util, temp} : r.exc = "none"
               THEN <<[vendor |-> "NVIDIA",
                       name |-> parts[1],
                       vram_total_gb |-> Div(total.val, MibPerGb),
                       vram_used_gb |-> Div(used.val, MibPerGb),
                       utilization_percent |-> Div(util.val, 1),
                       temperature_c |->
                           IF parts[5] # <<"[", "N", "/", "A", "]">>
                           THEN Some(Div(temp.val, 1))
                           ELSE None]>>
               ELSE <<>>
       ELSE <<>>

\* the loop over the lines left at the first line that gives no record
RECURSIVE NvidiaRecordsStopAtMalformed(_)
NvidiaRecordsStopAtMalformed(lines) ==
    IF lines = <<>> \/ NvidiaLine(Head(lines)) = <<>> THEN <<>>
    ELSE NvidiaLine(Head(lines)) \o NvidiaRecordsStopAtMalformed(Tail(lines))

\* lines 221-238: the loop over the lines
RECURSIVE NvidiaRecords(_)
NvidiaRecords(lines) ==
    IF lines = <<>> THEN <<>>
    ELSE NvidiaLine(Head(lines)) \o NvidiaRecords(Tail(lines))

\* lines 203-240
DetectNvidia(tool) ==
    IF ~tool.which THEN <<>>
    ELSE LET output == RunCommand(tool.proc, DefaultCmdTimeout).val IN
         IF output = <<>> THEN <<>>
         ELSE NvidiaRecords(SplitLines(output))

AmdTools ==
    {NoTool, Tool(TRUE, ExitsNonZero), Tool(TRUE, Prints(GpuText.amd_card)),
     Tool(TRUE, Prints(GpuText.amd_two_colons)),
     Tool(TRUE, Prints(GpuText.amd_second_line)),
     Tool(TRUE, Prints(GpuText.amd_no_colon))}

\* the name taken as everything after the first colon of the line
RECURSIVE AmdNameWholeRest(_)
AmdNameWholeRest(lines) ==
    IF lines = <<>> THEN <<"A", "M", "D", " ", "G", "P", "U">>
    ELSE LET line == Head(lines)
             parts == Split(line, ":")
         IN IF /\ \/ Contains(line, <<"G", "P", "U">>)
                  \/ Contains(line, <<"C", "a", "r", "d">>)
               /\ Len(parts) > 1
            THEN Strip(SubSeq(line, Len(parts[1]) + 2, Len(line)))
            ELSE AmdNameWholeRest(Tail(lines))

\* lines 260-266
RECURSIVE AmdName(_)
AmdName(lines) ==
    IF lines = <<>> THEN <<"A", "M", "D", " ", "G", "P", "U">>
    ELSE LET line == Head(lines)
             parts == Split(line, ":")
         IN IF /\ \/ Contains(line, <<"G", "P", "U">>)
                  \/ Contains(line, <<"C", "a", "r", "d">>)
               /\ Len(parts) > 1
            THEN Strip(parts[2])
            ELSE AmdName(Tail(lines))

\* lines 243-279
DetectAmd(tool) ==
    IF ~tool.which THEN <<>>
    ELSE LET name_output == RunCommand(tool.proc, DefaultCmdTimeout).val IN
         IF name_output = <<>> THEN <<>>
         ELSE <<[vendor |-> "AMD", name |-> AmdName(SplitLines(name_output)),
                 vram_total_gb |-> Zero, vram_used_gb |-> Zero,
                 utilization_percent |-> Zero, temperature_c |-> None]>>

IntelTools ==
    {NoTool, Tool(TRUE, Hangs), Tool(TRUE, Prints(GpuText.intel_listed)),
     Tool(TRUE, Prints(GpuText.intel_not_listed))}

\* lines 282-304
DetectIntel(tool) ==
    IF tool.which
       /\ Contains(RunCommand(tool.proc, DefaultCmdTimeout).val,
                   <<"I", "n", "t", "e", "l">>)
    THEN <<[vendor |-> "Intel",
            name |-> <<"I", "n", "t", "e", "l", " ", "G", "P", "U", " ", "(",
                       "A", "r", "c", "/", "X", "e", ")">>,
            vram_total_gb |-> Zero, vram_used_gb |-> Zero,
            utilization_percent |-> Zero, temperature_c |-> None]>>
    ELSE <<>>

\* line 321
BrandKeywords ==
    {<<"N", "V", "I", "D", "I", "A">>, <<"A", "M", "D">>,
     <<"I", "n", "t", "e", "l">>, <<"R", "a", "d", "e", "o", "n">>,
     <<"G", "e", "F", "o", "r", "c", "e">>}

\* a Win32_VideoController: its Name and its AdapterRAM, either of which
\* may be null.  AdapterRAM is an unsigned 32-bit property that the
\* scripting interface hands over as a signed one: 2^32 - 2^20 (the most
\* a card can report) reads -(2^20)
VideoControllers ==
    {[Name |-> Some(GpuText.ctrl_nvidia), AdapterRAM |-> Some(BytesPerGb)],
     [Name |-> Some(GpuText.ctrl_nvidia),
      AdapterRAM |-> Some(0 - 1024 * 1024)],
     [Name |-> Some(GpuText.ctrl_radeon), AdapterRAM |-> None],
     [Name |-> Some(GpuText.ctrl_basic), AdapterRAM |-> Some(0)],
     [Name |-> None, AdapterRAM |-> None]}

\* what wmi.WMI().Win32_VideoController() does: it raises, or lists devices
WmiOutcomes ==
    {Raise("OSError")}
    \cup {Ret(vs) : vs \in UNION {[1..n -> VideoControllers] : n \in 0..MaxLines}}

\* lines 317-335: a controller without a name raises in the loop, which
\* keeps the records made so far
RECURSIVE WmiRecords(_, _)
WmiRecords(videos, gpus) ==
    IF videos = <<>> THEN gpus
    ELSE LET video == Head(videos) IN
         IF video.Name = None THEN gpus
         ELSE LET name == Strip(video.Name[1])
                  vram_bytes == IF video.AdapterRAM = None
                                THEN 0
                                ELSE video.AdapterRAM[1]
              IN IF \E k \in BrandKeywords : Contains(name, k)
                 THEN WmiRecords(Tail(videos),
                        Append(gpus,
                          [vendor |-> "Integrated/Discrete",
                           name |-> name,
                           vram_total_gb |->
                               IF vram_bytes # 0
                               THEN Div(vram_bytes, BytesPerGb)
                               ELSE Zero,
                           vram_used_gb |-> Zero,
                           utilization_percent |-> Zero,
                           temperature_c |-> None]))
                 ELSE WmiRecords(Tail(videos), gpus)

\* lines 307-339
DetectWmi(outcome) ==
    IF outcome.exc # "none" THEN <<>> ELSE WmiRecords(outcome.val, <<>>)

\* line 185: whether the Windows fallback is attempted
WmiAttempted(gpus, wmiAvail, plat) ==
    gpus = <<>> /\ wmiAvail /\ IsWindows(plat)

\* detect without the placeholder record
GPUDetectNoSentinel(nvidia, amd, intel, wmiAvail, plat, wmi) ==
    LET found == nvidia \o amd \o intel
    IN Ret(IF WmiAttempted(found, wmiAvail, plat) THEN found \o wmi ELSE found)

\* detect adding the placeholder before the enumeration is attempted
GPUDetectSentinelBeforeFallback(nvidia, amd, intel, wmiAvail, plat, wmi) ==
    LET found == nvidia \o amd \o intel
        gpus == IF found = <<>> THEN <<SentinelGpu>> ELSE found
    IN Ret(IF WmiAttempted(found, wmiAvail, plat) THEN gpus \o wmi ELSE gpus)

\* detect with the AMD records put before the NVIDIA ones
GPUDetectAmdFirst(nvidia, amd, intel, wmiAvail, plat, wmi) ==
    LET found == amd \o nvidia \o intel
        gpus == IF WmiAttempted(found, wmiAvail, plat)
                THEN found \o wmi
                ELSE found
    IN Ret(IF gpus = <<>> THEN <<SentinelGpu>> ELSE gpus)

\* lines 173-200, from what the calls of the sub-probes return
GPUDetect(nvidia, amd, intel, wmiAvail, plat, wmi) ==
    LET found == nvidia \o amd \o intel
        gpus == IF WmiAttempted(found, wmiAvail, plat)
                THEN found \o wmi
                ELSE found
    IN Ret(IF gpus = <<>> THEN <<SentinelGpu>> ELSE gpus)

\* what the sub-probes returned in a call of detect: wmi is None when the
\* fallback was not attempted
SubProbeResults(nvidia, amd, intel, wmiAvail, plat, wmi) ==
    [nvidia |-> nvidia, amd |-> amd, intel |-> intel,
     wmi |-> IF WmiAttempted(nvidia \o amd \o intel, wmiAvail, plat)
             THEN Some(wmi)
             ELSE None]

\* what the sub-probes can return, over the tools and devices of the model
NvidiaResults == {DetectNvidia(t) : t \in NvidiaTools}

AmdResults == {DetectAmd(t) : t \in AmdTools}

IntelResults == {DetectIntel(t) : t \in IntelTools}

WmiResults == {DetectWmi(o) : o \in WmiOutcomes}

NoSubProbeResults == [nvidia |-> <<>>, amd |-> <<>>, intel |-> <<>>, wmi |-> None]

GpuIdle ==
    /\ wmiAvailable = FALSE
    /\ gpuPc = "idle"
    /\ gpuCalls = NoSubProbeResults
    /\ gpuRet = Ret(<<>>)

GpuDetectCall ==
    /\ UNCHANGED <<prVars, rcVars, bnVars, dkVars, coVars>>
    /\ gpuPc = "call"
    /\ \E nvidia \in NvidiaResults, amd \in AmdResults, intel \in IntelResults,
          wmi \in WmiResults :
          /\ gpuCalls' = SubProbeResults(nvidia, amd, intel, wmiAvailable,
                                         platform, wmi)
          /\ gpuRet' = GPUDetect(nvidia, amd, intel, wmiAvailable, platform, wmi)
    /\ gpuPc' = "done"
    /\ UNCHANGED <<platform, wmiAvailable>>

----------------------------------------------------------------------------
(* OSDetector *)

\* lines 63-78
OSDetect(plat) ==
    LET system == IF IsLinux(plat) THEN "Linux"
                  ELSE IF IsWindows(plat) THEN "Windows"
                  ELSE IF IsDarwin(plat) THEN "Darwin"
                  ELSE "FreeBSD"
    IN Ret([system |-> system, release |-> "6.1", version |-> "#1",
            machine |-> "x86_64", platform |-> system,
            python_version |-> "3.11"])

\* get_uptime with the hours taken from the whole uptime
GetUptimeHoursOfTotal(t) ==
    Ret([days |-> t \div (24 * 3600), hours |-> t \div 3600,
         minutes |-> (t % 3600) \div 60, total_seconds |-> t])

\* lines 81-93, for an uptime of t whole seconds: timedelta keeps the days and
\* the seconds of the last day
GetUptime(t) ==
    LET days == t \div (24 * 3600)
        seconds == t % (24 * 3600)
    IN Ret([days |-> days, hours |-> seconds \div 3600,
            minutes |-> (seconds % 3600) \div 60, total_seconds |-> t])

\* the uptime of the hosts the collector is run on: 1 day, 1 hour, 1 minute
\* and 1 second
HostUptime == 90061

----------------------------------------------------------------------------
(* CPUDetector *)

UnknownCpu == <<"U", "n", "k", "n", "o", "w", "n", " ", "C", "P", "U">>

\* what the commands and the platform module answer on the hosts of the model
HostText ==
    [xeon |-> <<"X", "e", "o", "n">>,
     wmic |-> <<"N", "a", "m", "e", "\n", "C", "o", "r", "e", " ", "i",
       "7">>,
     cpuinfo |-> <<" ", "R", "y", "z", "e", "n", " ", "5">>,
     brand_apple |-> <<"A", "p", "p", "l", "e", " ", "M", "2">>,
     brand_intel |-> <<"I", "n", "t", "e", "l", " ", "i", "9">>,
     memsize |-> <<"1", "0", "7", "3", "7", "4", "1", "8", "2", "4">>,
     wmic_header |-> <<"N", "a", "m", "e">>,
     brand_lower |-> <<"a", "p", "p", "l", "e", " ", "M", "1">>,
     board_vendor |-> <<"A", "S", "U", "S">>,
     board_name |-> <<"Z", "7", "9", "0">>]

\* the sensor groups _get_temperature prefers, in order
PreferredSensors == <<"coretemp", "cpu_thermal", "k10temp", "zenpower">>

\* the readings of group name in temps, a list of [name, readings]; <<>>
\* when temps has no such group
RECURSIVE Readings(_, _)
Readings(temps, name) ==
    IF temps = <<>> THEN <<>>
    ELSE IF Head(temps).name = name THEN Head(temps).readings
    ELSE Readings(Tail(temps), name)

RECURSIVE FirstPreferred(_, _)
FirstPreferred(temps, names) ==
    IF names = <<>> THEN None
    ELSE IF Readings(temps, Head(names)) # <<>>
    THEN Some(Readings(temps, Head(names))[1])
    ELSE FirstPreferred(temps, Tail(names))

RECURSIVE FirstReading(_)
FirstReading(temps) ==
    IF temps = <<>> THEN None
    ELSE IF Head(temps).readings # <<>> THEN Some(Head(temps).readings[1])
    ELSE FirstReading(Tail(temps))

\* _get_temperature without the preferred names
GetTemperatureAnyGroup(sensors) ==
    IF sensors.exc \in {"AttributeError", "KeyError"} THEN Ret(None)
    ELSE IF sensors.exc # "none" THEN sensors
    ELSE Ret(FirstReading(sensors.val))

\* lines 145-166: sensors is the outcome of psutil.sensors_temperatures()
GetTemperature(sensors) ==
    IF sensors.exc \in {"AttributeError", "KeyError"} THEN Ret(None)
    ELSE IF sensors.exc # "none" THEN sensors
    ELSE IF sensors.val = <<>> THEN Ret(None)
    ELSE IF FirstPreferred(sensors.val, PreferredSensors) # None
    THEN Ret(FirstPreferred(sensors.val, PreferredSensors))
    ELSE Ret(FirstReading(sensors.val))

\* lines 106-121: the name as it stands before line 135, and the commands
\* that were run for it, in order
CpuNameChain(plat, host) ==
    LET generic == host.processor
        askWmic == generic = <<>> /\ IsWindows(plat)
        wmic == IF askWmic
                THEN LET out == RunCommand(host.wmic, DefaultCmdTimeout).val IN
                     IF out # <<>>
                     THEN IF Len(SplitLines(out)) > 1
                          THEN Strip(SplitLines(out)[Len(SplitLines(out))])
                          ELSE <<"U", "n", "k", "n", "o", "w", "n">>
                     ELSE out
                ELSE generic
        askSysctl == IsDarwin(plat) /\ wmic = <<>>
        sysctl == IF askSysctl
                  THEN RunCommand(host.sysctl, DefaultCmdTimeout).val
                  ELSE wmic
        askCpuinfo == sysctl = <<>> /\ IsLinux(plat)
        cpuinfo == IF askCpuinfo
                   THEN RunCommand(host.cpuinfo, DefaultCmdTimeout).val
                   ELSE sysctl
    IN [name |-> cpuinfo,
        queried |-> (IF askWmic THEN <<"wmic">> ELSE <<>>)
                    \o (IF askSysctl THEN <<"sysctl">> ELSE <<>>)
                    \o (IF askCpuinfo THEN <<"cpuinfo">> ELSE <<>>)]

\* CpuName taking the first source whatever it holds
CpuNameFirstSourceOnly(plat, host) ==
    IF Strip(host.processor) # <<>> THEN Strip(host.processor) ELSE UnknownCpu

\* line 135
CpuName(plat, host) ==
    IF Strip(CpuNameChain(plat, host).name) # <<>>
    THEN Strip(CpuNameChain(plat, host).name)
    ELSE UnknownCpu

\* detect with -1 for a core count psutil.cpu_count cannot tell
CPUDetectUnknownAsMinusOne(plat, host) ==
    LET temperature == GetTemperature(host.sensors) IN
    IF host.freq.exc # "none" THEN host.freq
    ELSE IF temperature.exc # "none" THEN temperature
    ELSE Ret([name |-> CpuName(plat, host),
              cores_physical |-> IF host.cores_physical = None
                                 THEN 0 - 1 ELSE host.cores_physical[1],
              cores_logical |-> IF host.cores_logical = None
                                THEN 0 - 1 ELSE host.cores_logical[1],
              current_freq_mhz |-> IF host.freq.val = None
                                   THEN 0 ELSE host.freq.val[1].current,
              max_freq_mhz |-> IF host.freq.val = None
                               THEN 0 ELSE host.freq.val[1].max,
              usage_percent |-> host.cpu_percent,
              temperature_c |-> temperature.val])

\* lines 100-142: host holds what the host facilities answer
CPUDetect(plat, host) ==
    LET temperature == GetTemperature(host.sensors) IN
    IF host.freq.exc # "none" THEN host.freq
    ELSE IF temperature.exc # "none" THEN temperature
    ELSE Ret([name |-> CpuName(plat, host),
              cores_physical |-> IF host.cores_physical = None
                                 THEN 0 ELSE host.cores_physical[1],
              cores_logical |-> IF host.cores_logical = None
                                THEN 0 ELSE host.cores_logical[1],
              current_freq_mhz |-> IF host.freq.val = None
                                   THEN 0 ELSE host.freq.val[1].current,
              max_freq_mhz |-> IF host.freq.val = None
                               THEN 0 ELSE host.freq.val[1].max,
              usage_percent |-> host.cpu_percent,
              temperature_c |-> temperature.val])

CpuHost(processor, physical, logical, freq, sensors) ==
    [processor |-> processor, wmic |-> Prints(HostText.wmic),
     sysctl |-> Prints(HostText.brand_apple), cpuinfo |-> Prints(HostText.cpuinfo),
     cores_physical |-> physical, cores_logical |-> logical, freq |-> freq,
     cpu_percent |-> 12, sensors |-> sensors]

\* the CPUs of the hosts the collector is run on
CpuHosts ==
    {CpuHost(HostText.xeon, Some(4), Some(8),
             Ret(Some([current |-> 2400, max |-> 3600])),
             Ret(<<[name |-> "acpitz", readings |-> <<40>>],
                   [name |-> "coretemp", readings |-> <<55, 57>>]>>)),
     CpuHost(<<>>, None, Some(2), Ret(None), Raise("AttributeError")),
     CpuHost(HostText.xeon, Some(4), Some(8), Raise("NotImplementedError"),
             Ret(<<>>))}

----------------------------------------------------------------------------
(* MemoryDetector *)

\* detect with the total taken from the available memory
MemoryDetectTotalFromAvailable(vmem, swap) ==
    Ret([ram_total_bytes |-> vmem.available,
         ram_available_bytes |-> vmem.available,
         ram_used_bytes |-> vmem.used, ram_percent |-> vmem.percent,
         swap_total_bytes |-> swap.total, swap_used_bytes |-> swap.used,
         swap_percent |-> swap.percent])

\* lines 346-363
MemoryDetect(vmem, swap) ==
    Ret([ram_total_bytes |-> vmem.total, ram_available_bytes |-> vmem.available,
         ram_used_bytes |-> vmem.used, ram_percent |-> vmem.percent,
         swap_total_bytes |-> swap.total, swap_used_bytes |-> swap.used,
         swap_percent |-> swap.percent])

----------------------------------------------------------------------------
(* BatteryDetector *)

\* psutil.POWER_TIME_UNLIMITED
PowerTimeUnlimited == 0 - 2

\* psutil.POWER_TIME_UNKNOWN
PowerTimeUnknown == 0 - 1

\* str(n) for n >= 0
RECURSIVE IntToText(_)
IntToText(n) ==
    IF n < 10 THEN <<Digits[n + 1]>>
    ELSE IntToText(n \div 10) \o <<Digits[(n % 10) + 1]>>

\* the label with the minutes not reduced modulo the hour
TimeLeftLabelTotalMinutes(battery) ==
    IF battery.power_plugged
    THEN <<"C", "h", "a", "r", "g", "i", "n", "g">>
    ELSE IF battery.secsleft = PowerTimeUnlimited
    THEN <<"U", "n", "l", "i", "m", "i", "t", "e", "d">>
    ELSE IF battery.secsleft = PowerTimeUnknown
    THEN <<"U", "n", "k", "n", "o", "w", "n">>
    ELSE IntToText(battery.secsleft \div 3600) \o <<"h", " ">>
         \o IntToText(battery.secsleft \div 60) \o <<"m">>

\* lines 514-523
TimeLeftLabel(battery) ==
    IF battery.power_plugged
    THEN <<"C", "h", "a", "r", "g", "i", "n", "g">>
    ELSE IF battery.secsleft = PowerTimeUnlimited
    THEN <<"U", "n", "l", "i", "m", "i", "t", "e", "d">>
    ELSE IF battery.secsleft = PowerTimeUnknown
    THEN <<"U", "n", "k", "n", "o", "w", "n">>
    ELSE IntToText(battery.secsleft \div 3600) \o <<"h", " ">>
         \o IntToText((battery.secsleft % 3600) \div 60) \o <<"m">>

\* detect passing secsleft on as it is
BatteryDetectRawSeconds(sensed) ==
    IF sensed.exc # "none" THEN Ret(None)
    ELSE IF sensed.val = None THEN Ret(None)
    ELSE LET battery == sensed.val[1] IN
         Ret(Some([percent |-> battery.percent,
                   plugged |-> battery.power_plugged,
                   time_left |-> TimeLeftLabel(battery),
                   time_left_seconds |-> battery.secsleft]))

\* lines 503-533: sensed is the outcome of psutil.sensors_battery()
BatteryDetect(sensed) ==
    IF sensed.exc # "none" THEN Ret(None)
    ELSE IF sensed.val = None THEN Ret(None)
    ELSE LET battery == sensed.val[1] IN
         Ret(Some([percent |-> battery.percent,
                   plugged |-> battery.power_plugged,
                   time_left |-> TimeLeftLabel(battery),
                   time_left_seconds |->
                       IF battery.secsleft >= 0 THEN battery.secsleft ELSE 0]))

\* the batteries of the hosts the collector is run on
BatteryHosts ==
    {Ret(None), Raise("OSError"),
     Ret(Some([percent |-> 80, power_plugged |-> FALSE, secsleft |-> 5400])),
     Ret(Some([percent |-> 100, power_plugged |-> TRUE,
               secsleft |-> PowerTimeUnlimited]))}

----------------------------------------------------------------------------
(* MotherboardDetector *)

NotAvailable == <<"N", "/", "A">>

\* lines 547-554: the first base board with both texts; boards is the
\* outcome of wmi.WMI().Win32_BaseBoard()
WindowsBoard(boards) ==
    IF boards.exc = "none" /\ boards.val # <<>>
       /\ boards.val[1].Manufacturer # None /\ boards.val[1].Product # None
    THEN Some(Strip(boards.val[1].Manufacturer[1]) \o <<" ">>
              \o Strip(boards.val[1].Product[1]))
    ELSE None

\* detect joining the two texts on Linux when either of them was read
MotherboardDetectEitherText(plat, wmiAvail, host) ==
    IF wmiAvail /\ IsWindows(plat) /\ WindowsBoard(host.boards) # None
    THEN Ret(WindowsBoard(host.boards)[1])
    ELSE IF IsLinux(plat)
    THEN LET manufacturer == RunCommand(host.board_vendor, DefaultCmdTimeout).val
             product == RunCommand(host.board_name, DefaultCmdTimeout).val
         IN IF manufacturer # <<>> \/ product # <<>>
            THEN Ret(manufacturer \o <<" ">> \o product)
            ELSE Ret(NotAvailable)
    ELSE Ret(NotAvailable)

\* lines 540-566
MotherboardDetect(plat, wmiAvail, host) ==
    IF wmiAvail /\ IsWindows(plat) /\ WindowsBoard(host.boards) # None
    THEN Ret(WindowsBoard(host.boards)[1])
    ELSE IF IsLinux(plat)
    THEN LET manufacturer == RunCommand(host.board_vendor, DefaultCmdTimeout).val
             product == RunCommand(host.board_name, DefaultCmdTimeout).val
         IN IF manufacturer # <<>> /\ product # <<>>
            THEN Ret(manufacturer \o <<" ">> \o product)
            ELSE Ret(NotAvailable)
    ELSE Ret(NotAvailable)

\* the boards of the hosts the collector is run on
BoardHosts ==
    {[boards |-> Ret(<<[Manufacturer |-> Some(HostText.board_vendor),
                        Product |-> Some(HostText.board_name)]>>),
      board_vendor |-> Prints(HostText.board_vendor),
      board_name |-> Prints(HostText.board_name)],
     [boards |-> Raise("OSError"),
      board_vendor |-> Prints(HostText.board_vendor), board_name |-> ExitsNonZero]}

----------------------------------------------------------------------------
(* AppleSiliconDetector *)

RECURSIVE ChipVariant(_, _)
ChipVariant(chip, variants) ==
    IF variants = <<>> THEN <<"U", "n", "k", "n", "o", "w", "n">>
    ELSE IF Contains(chip, Head(variants)) THEN Head(variants)
    ELSE ChipVariant(chip, Tail(variants))

\* str.isdigit() for the texts of the model
IsDigitText(s) == s # <<>> /\ \A i \in 1..Len(s) : s[i] \in DigitSet

\* detect returning a record for every brand string that was read
AppleSiliconDetectAnyBrand(plat, host) ==
    IF ~IsDarwin(plat) THEN Ret(None)
    ELSE LET chip == RunCommand(host.brand, DefaultCmdTimeout).val IN
         IF chip = <<>> THEN Ret(None)
         ELSE Ret(Some([chip |-> chip,
                        variant |-> <<"U", "n", "k", "n", "o", "w", "n">>,
                        unified_memory_gb |-> Zero, supports_mlx |-> TRUE]))

\* lines 579-586: the commands detect runs, in order
AppleSiliconQueried(plat, host) ==
    IF ~IsDarwin(plat) THEN <<>>
    ELSE LET chip == RunCommand(host.brand, DefaultCmdTimeout).val IN
         IF chip = <<>> \/ ~Contains(chip, <<"A", "p", "p", "l", "e">>)
         THEN <<"machdep.cpu.brand_string">>
         ELSE <<"machdep.cpu.brand_string", "hw.memsize">>

\* lines 573-601
AppleSiliconDetect(plat, host) ==
    IF ~IsDarwin(plat) THEN Ret(None)
    ELSE LET chip == RunCommand(host.brand, DefaultCmdTimeout).val IN
         IF chip = <<>> \/ ~Contains(chip, <<"A", "p", "p", "l", "e">>)
         THEN Ret(None)
         ELSE LET mem_bytes == RunCommand(host.memsize, DefaultCmdTimeout).val IN
              Ret(Some([chip |-> chip,
                        variant |->
                            ChipVariant(chip, <<<<"M", "1">>, <<"M", "2">>,
                                                <<"M", "3">>, <<"M", "4">>>>),
                        unified_memory_gb |->
                            IF IsDigitText(mem_bytes)
                            THEN Div(DigitsValue(mem_bytes), BytesPerGb)
                            ELSE Zero,
                        supports_mlx |-> TRUE]))

\* the kernel parameters of the hosts the collector is run on
AppleHosts ==
    {[brand |-> Prints(HostText.brand_apple), memsize |-> Prints(HostText.memsize)],
     [brand |-> Hangs, memsize |-> Prints(HostText.memsize)],
     [brand |-> Prints(HostText.brand_intel), memsize |-> Prints(HostText.memsize)]}

----------------------------------------------------------------------------
(* LLMNeofetch.collect_system_info *)

\* line 145: size_mb=100
CollectSizeMb == 100

\* the partition lists of the hosts the collector is run on
CollectPartitions ==
    {<<>>,
     <<Volume(DiskText.nvme, DiskText.home, DiskText.ext4, DiskText.rw,
              UsageOf(500, 100), None),
       Volume(DiskText.sda1, DiskText.root, DiskText.ext4, DiskText.rw,
              UsageOf(100, 40), Some(DiskText.rotational))>>,
     <<Volume(DiskText.c_drive, DiskText.c_root, DiskText.ntfs, DiskText.rw,
              UsageOf(200, 50), None)>>,
     <<Volume(DiskText.sda1, DiskText.root, DiskText.ext4, DiskText.rw,
              UsageOf(100, 40), Some(DiskText.rotational)),
       Volume(DiskText.nfs, DiskText.net, DiskText.ext4, DiskText.rw,
              Raise("OSError"), None)>>}

\* the GPU tools of the hosts the collector is run on
CollectGpuHosts ==
    {[nvidia |-> NoTool, amd |-> NoTool, intel |-> NoTool,
      wmi |-> Ret(<<[Name |-> Some(GpuText.ctrl_radeon), AdapterRAM |-> None]>>)],
     [nvidia |-> Tool(TRUE, Prints(GpuText.nv_good)), amd |-> NoTool,
      intel |-> Tool(TRUE, Hangs), wmi |-> Raise("OSError")]}

\* lines 123-135: the probes in the order in which the calls are written
ProbeOrderGpuBeforeCpu ==
    <<"os", "uptime", "gpus", "cpu", "memory", "disks", "battery",
      "motherboard", "apple_silicon">>

ProbeOrder ==
    <<"os", "uptime", "cpu", "gpus", "memory", "disks", "battery",
      "motherboard", "apple_silicon">>

\* the position of the collector after the probe at position i of the order
RECURSIVE IndexOf(_, _)
IndexOf(label, order) ==
    IF Head(order) = label THEN 1 ELSE 1 + IndexOf(label, Tail(order))

After(label) ==
    IF IndexOf(label, coOrder) = Len(coOrder)
    THEN "benchmark"
    ELSE coOrder[IndexOf(label, coOrder) + 1]

\* line 147 on the last disk instead of the first
AttachBenchmarkToLast(snapshot, result) ==
    [snapshot EXCEPT !["disks"][Len(snapshot["disks"])] =
        @ @@ ("benchmark" :> result)]

\* lines 143 and 147: main_disk["benchmark"] = bench_result
AttachBenchmark(snapshot, result) ==
    [snapshot EXCEPT !["disks"][1] = ("benchmark" :> result) @@ @]

CollectIdle ==
    /\ coPc = "idle"
    /\ coBenchmark = FALSE
    /\ coCall = 0
    /\ info = <<>>
    /\ coBefore = <<>>
    /\ coStarted = <<>>
    /\ coReturned = <<>>
    /\ coRaised = "none"
    /\ prevKeys = None
    /\ coAnswers = <<>>
    /\ coOrder = ProbeOrder
    /\ prevCall = None

\* line 124: the dict literal starts with the timestamp
CollectTimestamp ==
    /\ UNCHANGED <<prVars, rcVars, platform, dkVars, gpuVars, bnVars>>
    /\ coPc = "timestamp"
    /\ info' = ("timestamp" :> coCall)
    /\ coPc' = coOrder[1]
    /\ UNCHANGED <<coBenchmark, coCall, coBefore, coStarted, coReturned,
                   coRaised, prevKeys, coAnswers, prevCall, coOrder>>

\* the battery probe and the board probe storing their values in one field
CallProbeSharedSlot(key, outcome) ==
    /\ UNCHANGED <<prVars, rcVars, platform, dkVars, gpuVars, bnVars>>
    /\ coStarted' = Append(coStarted, key)
    /\ IF outcome.exc = "none"
       THEN /\ info' =
                  LET slot == IF key = "motherboard" THEN "battery" ELSE key
                  IN (slot :> outcome.val) @@ info
            /\ coReturned' = Append(coReturned, key)
            /\ coPc' = After(key)
            /\ UNCHANGED coRaised
       ELSE /\ coRaised' = outcome.exc
            /\ coPc' = "raised"
            /\ UNCHANGED <<info, coReturned>>
    /\ UNCHANGED <<coBenchmark, coCall, coBefore, prevKeys, prevCall, coOrder>>

\* one entry of the dict literal: the probe is called, and its value is
\* stored under key; an exception of the probe ends collect_system_info
CallProbe(key, outcome) ==
    /\ UNCHANGED <<prVars, rcVars, platform, dkVars, gpuVars, bnVars>>
    /\ coStarted' = Append(coStarted, key)
    /\ IF outcome.exc = "none"
       THEN /\ info' = info @@ (key :> outcome.val)
            /\ coReturned' = Append(coReturned, key)
            /\ coPc' = After(key)
            /\ UNCHANGED coRaised
       ELSE /\ coRaised' = outcome.exc
            /\ coPc' = "raised"
            /\ UNCHANGED <<info, coReturned>>
    /\ UNCHANGED <<coBenchmark, coCall, coBefore, prevKeys, prevCall, coOrder>>

\* line 125
CollectOs ==
    /\ coPc = "os"
    /\ UNCHANGED coAnswers
    /\ CallProbe("os", OSDetect(platform))

\* line 126
CollectUptime ==
    /\ coPc = "uptime"
    /\ UNCHANGED coAnswers
    /\ CallProbe("uptime", GetUptime(HostUptime))

\* line 127
CollectCpu ==
    /\ coPc = "cpu"
    /\ \E host \in CpuHosts :
          /\ coAnswers' = coAnswers @@ ("cpu" :> host)
          /\ CallProbe("cpu", CPUDetect(platform, host))

\* line 128
CollectGpus ==
    /\ coPc = "gpus"
    /\ \E host \in CollectGpuHosts :
          /\ coAnswers' = coAnswers @@ ("gpus" :> host)
          /\ CallProbe("gpus",
                       GPUDetect(DetectNvidia(host.nvidia), DetectAmd(host.amd),
                                 DetectIntel(host.intel), wmiAvailable,
                                 platform, DetectWmi(host.wmi)))

\* line 129: the size of the memory is a fact of the host, the part in use
\* changes from call to call
CollectMemory ==
    /\ coPc = "memory"
    /\ UNCHANGED coAnswers
    /\ LET used == 8192 + 1024 * coCall IN
       CallProbe("memory",
                 MemoryDetect([total |-> 16384, available |-> 16384 - used,
                               used |-> used,
                               percent |-> (used * 100) \div 16384],
                              [total |-> 0, used |-> 0, percent |-> 0]))

\* line 130
CollectDisks ==
    /\ coPc = "disks"
    /\ UNCHANGED coAnswers
    /\ CallProbe("disks", DiskDetect(partitions, platform))

\* line 131
CollectBattery ==
    /\ coPc = "battery"
    /\ \E sensed \in BatteryHosts :
          /\ coAnswers' = coAnswers @@ ("battery" :> sensed)
          /\ CallProbe("battery", BatteryDetect(sensed))

\* line 132
CollectMotherboard ==
    /\ coPc = "motherboard"
    /\ \E host \in BoardHosts :
          /\ coAnswers' = coAnswers @@ ("motherboard" :> host)
          /\ CallProbe("motherboard",
                       MotherboardDetect(platform, wmiAvailable, host))

\* lines 135-137: the key is set only when the probe returned a record
CollectApple ==
    /\ UNCHANGED <<prVars, rcVars, platform, dkVars, gpuVars, bnVars>>
    /\ coPc = "apple_silicon"
    /\ \E host \in AppleHosts :
          LET apple_silicon == AppleSiliconDetect(platform, host).val IN
          /\ coAnswers' = coAnswers @@ ("apple_silicon" :> host)
          /\ info' = IF apple_silicon # None
                     THEN info @@ ("apple_silicon" :> apple_silicon[1])
                     ELSE info
    /\ coStarted' = Append(coStarted, "apple_silicon")
    /\ coReturned' = Append(coReturned, "apple_silicon")
    /\ coPc' = After("apple_silicon")
    /\ UNCHANGED <<coBenchmark, coCall, coBefore, coRaised, prevKeys,
                   prevCall, coOrder>>

\* lines 139-145: the benchmark is called on the first disk's mountpoint
CollectBenchCall ==
    /\ UNCHANGED <<prVars, rcVars, platform, dkVars, gpuVars>>
    /\ coPc = "benchmark"
    /\ coBenchmark /\ info["disks"] # <<>>
    /\ coBefore' = info
    /\ coStarted' = Append(coStarted, "benchmark")
    /\ bnPc' = "write"
    /\ bnPath' = info["disks"][1].mountpoint
    /\ bnSize' = CollectSizeMb
    /\ bnTimeout' = DefaultBenchTimeout
    /\ bnCalled' = now
    /\ coPc' = "benchmarking"
    /\ UNCHANGED <<now, fileExists, bnStart, bnWriteTime, bnReadTime, bnExc, bnRet>>
    /\ coAnswers' = <<>>
    /\ UNCHANGED <<coBenchmark, coCall, info, coReturned, coRaised, prevKeys,
                   prevCall, coOrder>>

\* line 139, when the condition is false, and line 149
CollectSkipBench ==
    /\ UNCHANGED <<prVars, rcVars, platform, dkVars, gpuVars, bnVars>>
    /\ coPc = "benchmark"
    /\ ~(coBenchmark /\ info["disks"] # <<>>)
    /\ coBefore' = info
    /\ coPc' = "done"
    /\ UNCHANGED <<coBenchmark, coCall, info, coStarted, coReturned, coRaised,
                   prevKeys, coAnswers, prevCall, coOrder>>

\* lines 145-149: the result is attached when it is truthy
CollectBenchReturn ==
    /\ UNCHANGED <<prVars, rcVars, platform, dkVars, gpuVars, bnVars>>
    /\ coPc = "benchmarking"
    /\ bnPc = "done"
    /\ info' = IF bnRet.val # None
               THEN AttachBenchmark(info, bnRet.val[1])
               ELSE info
    /\ coReturned' = Append(coReturned, "benchmark")
    /\ coPc' = "done"
    /\ UNCHANGED <<coBenchmark, coCall, coBefore, coStarted, coRaised, prevKeys,
                   coAnswers, prevCall, coOrder>>

\* collect_system_info is called again on the same host
CollectAgain ==
    /\ UNCHANGED <<prVars, rcVars, platform, dkVars, gpuVars>>
    /\ coPc = "done"
    /\ coCall < MaxCalls
    /\ prevKeys' = Some(DOMAIN info)
    /\ coCall' = coCall + 1
    /\ coBenchmark' \in BOOLEAN
    /\ coPc' = "timestamp"
    /\ info' = <<>>
    /\ coBefore' = <<>>
    /\ coStarted' = <<>>
    /\ coReturned' = <<>>
    /\ now' = 0
    /\ bnPc' = "idle"
    /\ bnPath' = HomeDir
    /\ bnSize' = DefaultSizeMb
    /\ bnTimeout' = DefaultBenchTimeout
    /\ bnCalled' = 0
    /\ bnStart' = 0
    /\ bnWriteTime' = 0
    /\ bnReadTime' = 0
    /\ bnExc' = "none"
    /\ bnRet' = Ret(None)
    /\ coAnswers' = <<>>
    /\ UNCHANGED <<fileExists, coRaised, prevCall, coOrder>>

\* collect_system_info(False) has returned and is called again with False on
\* the same host; what the returned snapshot says of the host is kept
CollectAgainPlain ==
    /\ UNCHANGED <<prVars, rcVars, platform, dkVars, gpuVars, bnVars>>
    /\ coPc = "done"
    /\ ~coBenchmark
    /\ coCall < MaxCalls
    /\ prevCall' = Some([answers |-> coAnswers["cpu"],
                         os |-> info["os"],
                         cpu_name |-> info["cpu"].name,
                         cores_physical |-> info["cpu"].cores_physical,
                         cores_logical |-> info["cpu"].cores_logical,
                         ram_total_bytes |-> info["memory"].ram_total_bytes,
                         disks |-> info["disks"]])
    /\ prevKeys' = Some(DOMAIN info)
    /\ coCall' = coCall + 1
    /\ coPc' = "timestamp"
    /\ info' = <<>>
    /\ coBefore' = <<>>
    /\ coStarted' = <<>>
    /\ coReturned' = <<>>
    /\ coAnswers' = <<>>
    /\ UNCHANGED <<coBenchmark, coRaised, coOrder>>

\* collect_system_info(False) has returned; the same call is made again on
\* the same host with the probes of lines 125-137 started in another order,
\* each still storing its value under its own key: the code order turned
\* round by any number of places, or reversed
CollectInAnotherOrder ==
    /\ UNCHANGED <<prVars, rcVars, platform, dkVars, gpuVars, bnVars>>
    /\ coPc = "done"
    /\ ~coBenchmark
    /\ prevCall = None
    /\ prevCall' = Some([answers |-> coAnswers, info |-> info])
    /\ \E k \in 0..Len(ProbeOrder) :
          coOrder' = [i \in 1..Len(ProbeOrder) |->
                         IF k = Len(ProbeOrder)
                         THEN ProbeOrder[Len(ProbeOrder) + 1 - i]
                         ELSE ProbeOrder[((i + k - 1) % Len(ProbeOrder)) + 1]]
    /\ prevKeys' = Some(DOMAIN info)
    /\ coPc' = "timestamp"
    /\ info' = <<>>
    /\ coBefore' = <<>>
    /\ coStarted' = <<>>
    /\ coReturned' = <<>>
    /\ coAnswers' = <<>>
    /\ UNCHANGED <<coBenchmark, coCall, coRaised>>

----------------------------------------------------------------------------
(* UIRenderer.format_size (src/src/ui.py).  A byte count is kept as        *)
(* [m, e], the number m * 1024^e with m < 2^20: for these numbers the      *)
(* double-precision logarithm of line 69 has the integer part of the exact *)
(* one, and the division of line 73 is exact.                              *)

\* line 68, each unit followed by the default suffix
SizeUnits ==
    <<<<"B">>, <<"K", "i", "B">>, <<"M", "i", "B">>, <<"G", "i", "B">>,
      <<"T", "i", "B">>, <<"P", "i", "B">>>>

\* format_size with the unit taken from the exponent alone
FormatSizeUnitOfExponent(bytes_val) ==
    IF bytes_val.m = 0 THEN Ret(<<"0", " ", "B">>)
    ELSE LET i == IF bytes_val.e < 5 THEN bytes_val.e ELSE 5
             num == IF bytes_val.e > i THEN bytes_val.m * 1024 ELSE bytes_val.m
         IN Ret(IntToText(num) \o <<".", "0", " ">> \o SizeUnits[i + 1])

\* lines 65-73, for the default suffix
FormatSize(bytes_val) ==
    IF bytes_val.m = 0 THEN Ret(<<"0", " ", "B">>)
    ELSE LET log == IF bytes_val.m >= 1024 THEN bytes_val.e + 1
                    ELSE bytes_val.e
             i == IF log < Len(SizeUnits) - 1 THEN log ELSE Len(SizeUnits) - 1
             \* bytes_val / p as the fraction num / den
             num == IF bytes_val.e > i THEN bytes_val.m * 1024 ELSE bytes_val.m
             den == IF bytes_val.e < i THEN 1024 ELSE 1
             \* :.1f rounds to the nearest tenth, a tie to the even one
             q == (10 * num) \div den
             r == (10 * num) % den
             tenths == IF 2 * r > den \/ (2 * r = den /\ q % 2 = 1)
                       THEN q + 1 ELSE q
         IN Ret(IntToText(tenths \div 10) \o <<".">> \o IntToText(tenths % 10)
                \o <<" ">> \o SizeUnits[i + 1])

----------------------------------------------------------------------------
(* The probes called one at a time: a behaviour is one call of one probe,  *)
(* or the calls of format_size that render one screen.                     *)

ProbeIdle ==
    /\ prCall = [fn |-> "none", args |-> <<>>]
    /\ prRet = Ret(<<>>)

\* detectors.py lines 88-93, for the whole seconds t between the boot time
\* and now
GetUptimeCall ==
    /\ UNCHANGED <<rcVars, bnVars, platform, dkVars, gpuVars, coVars>>
    /\ prCall.fn = "none"
    /\ \E t \in {d * 86400 + h * 3600 + m * 60 + sec :
                    d \in 0..MaxDays, h \in {0, 1, 23}, m \in {0, 1, 59},
                    sec \in {0, 1, 59}} :
          /\ prCall' = [fn |-> "get_uptime", args |-> <<t>>]
          /\ prRet' = GetUptime(t)

\* ui.py lines 55-73: byte counts around the powers of 1024, the ties of the
\* rounding and the last value of each unit
FormatSizeCall ==
    /\ UNCHANGED <<rcVars, bnVars, platform, dkVars, gpuVars, coVars>>
    /\ prCall.fn \in {"none", "format_size"}
    /\ \E m \in {0, 1, 2, 512, 1023, 1024, 1025, 1280, 1536, 1792, 2047,
                  1048524, 1048525, 1048575},
          e \in 0..6 :
          /\ e = 6 => m < 1024
          /\ prCall' = [fn |-> "format_size", args |-> <<[m |-> m, e |-> e]>>]
          /\ prRet' = FormatSize([m |-> m, e |-> e])

\* detectors.py lines 414-444: device paths with and without "nvme", in
\* either case, at the start, in the middle and at the end; the rotational
\* pseudo-file unreadable, "0" or "1"
DetectDiskTypeCall ==
    /\ UNCHANGED <<rcVars, bnVars, platform, dkVars, gpuVars, coVars>>
    /\ prCall.fn = "none"
    /\ \E pre \in {<<>>, <<"/", "d", "e", "v", "/">>, <<"C", ":">>},
          name \in {<<"n", "v", "m", "e">>, <<"N", "V", "M", "e">>,
                    <<"n", "v", "m">>, <<"s", "d", "a">>},
          post \in {<<>>, <<"0", "n", "1">>, <<"s", "s", "d">>},
          rotational \in {None, Some(DiskText.rotational),
                          Some(DiskText.flash)} :
          /\ prCall' = [fn |-> "_detect_disk_type",
                        args |-> <<pre \o name \o post, rotational>>]
          /\ prRet' = Ret(DetectDiskType(pre \o name \o post, platform,
                                         rotational))

\* detectors.py lines 99-142: the generic identifier empty, blank or a name;
\* wmic printing a header and a name, the header alone, or failing; the
\* other two commands answering or failing; each core count known or not
CpuDetectCall ==
    /\ UNCHANGED <<rcVars, bnVars, platform, dkVars, gpuVars, coVars>>
    /\ prCall.fn = "none"
    /\ \E processor \in {<<>>, <<" ">>, HostText.xeon},
          wmic \in {Prints(HostText.wmic), Prints(HostText.wmic_header),
                    ExitsNonZero},
          sysctl \in {Prints(HostText.brand_intel), Hangs},
          cpuinfo \in {Prints(HostText.cpuinfo), ExitsNonZero},
          physical \in {None, Some(4)},
          logical \in {None, Some(8)},
          freq \in {Ret(None), Raise("NotImplementedError")} :
          LET host == [CpuHost(processor, physical, logical, freq, Ret(<<>>))
                          EXCEPT !.wmic = wmic, !.sysctl = sysctl,
                                 !.cpuinfo = cpuinfo]
          IN /\ prCall' = [fn |-> "CPUDetector.detect", args |-> <<host>>,
                           queried |-> CpuNameChain(platform, host).queried]
             /\ prRet' = CPUDetect(platform, host)

\* detectors.py lines 539-566: the base boards WMI lists (none, one, two
\* with blanks around the texts, one without a manufacturer, or the query
\* raising) and the two pseudo-file reads answering or failing
MotherboardDetectCall ==
    /\ UNCHANGED <<rcVars, bnVars, platform, dkVars, gpuVars, coVars>>
    /\ prCall.fn = "none"
    /\ \E boards \in
              {Ret(<<>>),
               Ret(<<[Manufacturer |-> Some(HostText.board_vendor),
                      Product |-> Some(HostText.board_name)]>>),
               Ret(<<[Manufacturer |-> Some(<<" ">> \o HostText.board_vendor),
                      Product |-> Some(<<>>)],
                     [Manufacturer |-> Some(HostText.xeon),
                      Product |-> Some(HostText.board_name)]>>),
               Ret(<<[Manufacturer |-> None,
                      Product |-> Some(HostText.board_name)]>>),
               Raise("OSError")},
          vendor \in {Prints(HostText.board_vendor), ExitsNonZero},
          name \in {Prints(HostText.board_name), ExitsNonZero, Hangs} :
          LET host == [boards |-> boards, board_vendor |-> vendor,
                       board_name |-> name]
          IN /\ prCall' = [fn |-> "MotherboardDetector.detect",
                           args |-> <<host>>]
             /\ prRet' = MotherboardDetect(platform, wmiAvailable, host)

\* detectors.py lines 502-533: no battery, a failing sensor, or a battery
\* on or off the mains with the seconds left unlimited, unknown or known
BatteryDetectCall ==
    /\ UNCHANGED <<rcVars, bnVars, platform, dkVars, gpuVars, coVars>>
    /\ prCall.fn = "none"
    /\ \E sensed \in
              {Ret(None), Raise("OSError")}
              \cup {Ret(Some([percent |-> percent, power_plugged |-> plugged,
                              secsleft |-> secsleft])) :
                       percent \in {0, 80, 100}, plugged \in BOOLEAN,
                       secsleft \in {PowerTimeUnlimited, PowerTimeUnknown, 0,
                                     59, 3600, 5400, 86400}} :
          /\ prCall' = [fn |-> "BatteryDetector.detect", args |-> <<sensed>>]
          /\ prRet' = BatteryDetect(sensed)

\* detectors.py lines 572-601: the brand string naming an Apple chip, an
\* Intel one, "apple" in lower case, or not read; the memory size read or not
AppleSiliconDetectCall ==
    /\ UNCHANGED <<rcVars, bnVars, platform, dkVars, gpuVars, coVars>>
    /\ prCall.fn = "none"
    /\ \E brand \in {Prints(HostText.brand_apple), Prints(HostText.brand_intel),
                     Prints(HostText.brand_lower), ExitsNonZero, Hangs},
          memsize \in {Prints(HostText.memsize), ExitsNonZero} :
          LET host == [brand |-> brand, memsize |-> memsize]
          IN /\ prCall' = [fn |-> "AppleSiliconDetector.detect",
                           args |-> <<host>>,
                           queried |-> AppleSiliconQueried(platform, host)]
             /\ prRet' = AppleSiliconDetect(platform, host)

\* detectors.py lines 144-166: psutil without sensors_temperatures, the
\* call failing, or a dict of up to two groups, each with no, one or two
\* readings
GetTemperatureCall ==
    /\ UNCHANGED <<rcVars, bnVars, platform, dkVars, gpuVars, coVars>>
    /\ prCall.fn = "none"
    /\ \E sensors \in
            {Raise("AttributeError"), Raise("OSError")}
            \cup {Ret(temps) :
                    temps \in {t \in UNION {[1..n ->
                                   [name : {"acpitz", "zenpower", "k10temp",
                                            "coretemp"},
                                    readings : {<<>>, <<40>>, <<55, 57>>}]] :
                                   n \in 0..MaxLines} :
                                  \A i, j \in 1..Len(t) :
                                     t[i].name = t[j].name => i = j}} :
          /\ prCall' = [fn |-> "_get_temperature", args |-> <<sensors>>]
          /\ prRet' = GetTemperature(sensors)

\* detectors.py lines 202-240
DetectNvidiaCall ==
    /\ UNCHANGED <<rcVars, bnVars, platform, dkVars, gpuVars, coVars>>
    /\ prCall.fn = "none"
    /\ \E tool \in NvidiaTools :
          /\ prCall' = [fn |-> "_detect_nvidia", args |-> <<tool>>]
          /\ prRet' = Ret(DetectNvidia(tool))

\* detectors.py lines 242-279: rocm-smi asked for the product name, and then
\* for memory, temperature and use, whose answers are dropped
DetectAmdCall ==
    /\ UNCHANGED <<rcVars, bnVars, platform, dkVars, gpuVars, coVars>>
    /\ prCall.fn = "none"
    /\ \E tool \in AmdTools,
          others \in {ExitsNonZero, Hangs, Prints(GpuText.amd_card)} :
          /\ prCall' = [fn |-> "_detect_amd", args |-> <<tool, others>>]
          /\ prRet' = Ret(DetectAmd(tool))

----------------------------------------------------------------------------
(* Specifications *)

\* one call of run_command, for every command behaviour and timeout
InitRun ==
    /\ rcPc = "call"
    /\ rcProc \in Procs
    /\ rcTimeout \in {1, DefaultCmdTimeout}
    /\ rcRet = Ret(<<>>)
    /\ rcElapsed = 0
    /\ BenchIdle
    /\ DiskIdle
    /\ GpuIdle
    /\ CollectIdle
    /\ ProbeIdle

SpecRun == InitRun /\ [][RunCommandCall]_vars

\* one call of benchmark_speed, for every size, timeout and I/O behaviour
InitBench ==
    /\ now = 0
    /\ fileExists \in BOOLEAN
    /\ bnPc = "write"
    /\ bnPath = HomeDir
    /\ bnSize \in {0, 1, DefaultSizeMb}
    /\ bnTimeout \in {1, DefaultBenchTimeout}
    /\ bnCalled = 0
    /\ bnStart = 0
    /\ bnWriteTime = 0
    /\ bnReadTime = 0
    /\ bnExc = "none"
    /\ bnRet = Ret(None)
    /\ RunIdle
    /\ DiskIdle
    /\ GpuIdle
    /\ CollectIdle
    /\ ProbeIdle

SpecBench ==
    InitBench /\ [][
    \/ BenchWrite
    \/ BenchCheckWriteTime
    \/ BenchRead
    \/ BenchRemove
    \/ BenchResult
    \/ BenchExcept
    ]_vars

\* one call of DiskDetector.detect, for every list of partitions
InitDisk ==
    /\ platform \in {<<"l", "i", "n", "u", "x">>, <<"w", "i", "n", "3", "2">>}
    /\ partitions \in UNION {[1..n -> HostVolumes] : n \in 0..MaxParts}
    /\ dkPc = "call"
    /\ dkScan = Ret(<<>>)
    /\ dkRet = Ret(<<>>)
    /\ RunIdle
    /\ BenchIdle
    /\ GpuIdle
    /\ CollectIdle
    /\ ProbeIdle

SpecDisk == InitDisk /\ [][DiskDetectCall]_vars

\* one call of GPUDetector.detect, for every behaviour of the vendor tools
InitGpu ==
    /\ platform \in Platforms
    /\ wmiAvailable \in BOOLEAN
    /\ gpuPc = "call"
    /\ gpuCalls = NoSubProbeResults
    /\ gpuRet = Ret(<<>>)
    /\ RunIdle
    /\ BenchIdle
    /\ CollectIdle
    /\ ProbeIdle
    /\ partitions = <<>> /\ dkPc = "idle" /\ dkScan = Ret(<<>>) /\ dkRet = Ret(<<>>)

SpecGpu == InitGpu /\ [][GpuDetectCall]_vars

\* calls of collect_system_info on one host, for every platform, benchmark
\* argument and behaviour of the host's facilities
InitCollect ==
    /\ coPc = "timestamp"
    /\ coBenchmark \in BOOLEAN
    /\ coCall = 1
    /\ info = <<>>
    /\ coBefore = <<>>
    /\ coStarted = <<>>
    /\ coReturned = <<>>
    /\ coRaised = "none"
    /\ prevKeys = None
    /\ coAnswers = <<>>
    /\ coOrder = ProbeOrder
    /\ prevCall = None
    /\ ProbeIdle
    /\ RunIdle
    /\ BenchIdle
    /\ platform \in Platforms
    /\ wmiAvailable \in BOOLEAN
    /\ partitions \in CollectPartitions
    /\ dkPc = "idle" /\ dkScan = Ret(<<>>) /\ dkRet = Ret(<<>>)
    /\ gpuPc = "idle" /\ gpuCalls = NoSubProbeResults /\ gpuRet = Ret(<<>>)

SpecCollect ==
    InitCollect /\ [][
    \/ CollectTimestamp
    \/ CollectOs
    \/ CollectUptime
    \/ CollectCpu
    \/ CollectGpus
    \/ CollectMemory
    \/ CollectDisks
    \/ CollectBattery
    \/ CollectMotherboard
    \/ CollectApple
    \/ CollectBenchCall
    \/ CollectSkipBench
    \/ BenchWrite
    \/ BenchCheckWriteTime
    \/ BenchRead
    \/ BenchRemove
    \/ BenchResult
    \/ BenchExcept
    \/ CollectBenchReturn
    \/ CollectAgain
    ]_vars

\* collect_system_info(False) called repeatedly on one host
InitTwice == InitCollect /\ ~coBenchmark

SpecTwice ==
    InitTwice /\ [][
    \/ CollectTimestamp
    \/ CollectOs
    \/ CollectUptime
    \/ CollectCpu
    \/ CollectGpus
    \/ CollectMemory
    \/ CollectDisks
    \/ CollectBattery
    \/ CollectMotherboard
    \/ CollectApple
    \/ CollectSkipBench
    \/ CollectAgainPlain
    ]_vars

\* collect_system_info(False) on a Mac or a Windows host with two
\* partitions, and the same call with the probes in another order
InitAnyOrder ==
    /\ InitCollect
    /\ ~coBenchmark
    /\ wmiAvailable
    /\ IsDarwin(platform) \/ IsWindows(platform)
    /\ Len(partitions) = 2

SpecAnyOrder ==
    InitAnyOrder /\ [][
    \/ CollectTimestamp
    \/ CollectOs
    \/ CollectUptime
    \/ CollectCpu
    \/ CollectGpus
    \/ CollectMemory
    \/ CollectDisks
    \/ CollectBattery
    \/ CollectMotherboard
    \/ CollectApple
    \/ CollectSkipBench
    \/ CollectInAnotherOrder
    ]_vars

\* one probe called on its own
InitProbes ==
    /\ ProbeIdle
    /\ platform \in Platforms
    /\ wmiAvailable \in BOOLEAN
    /\ RunIdle
    /\ BenchIdle
    /\ partitions = <<>>
    /\ dkPc = "idle" /\ dkScan = Ret(<<>>) /\ dkRet = Ret(<<>>)
    /\ gpuPc = "idle" /\ gpuCalls = NoSubProbeResults /\ gpuRet = Ret(<<>>)
    /\ CollectIdle

SpecProbes ==
    InitProbes /\ [][
    \/ GetUptimeCall
    \/ FormatSizeCall
    \/ DetectDiskTypeCall
    \/ CpuDetectCall
    \/ MotherboardDetectCall
    \/ BatteryDetectCall
    \/ AppleSiliconDetectCall
    \/ DetectNvidiaCall
    \/ DetectAmdCall
    \/ GetTemperatureCall
    ]_vars

----------------------------------------------------------------------------
(* C2: run_command never raises; it returns the standard output without   *)
(* its leading and trailing whitespace when the command exits with status  *)
(* 0 within the timeout, and the empty text in every other case (timeout,  *)
(* non-zero status, executable not found, any other failure).              *)
IsStrippedOf(r, s) ==
    /\ r = <<>> \/ (r[1] \notin Whitespace /\ r[Len(r)] \notin Whitespace)
    /\ \E a \in 0..Len(s) :
          /\ a + Len(r) <= Len(s)
          /\ \A k \in 1..a : s[k] \in Whitespace
          /\ \A k \in (a + Len(r) + 1)..Len(s) : s[k] \in Whitespace
          /\ \A k \in 1..Len(r) : r[k] = s[a + k]

RunCommandNeverRaises ==
    rcPc = "done" =>
        /\ rcRet.exc = "none"
        /\ IF rcProc.kind = "exit" /\ rcProc.code = 0 /\ rcProc.dur # Forever
              /\ rcProc.dur <= rcTimeout
           THEN IsStrippedOf(rcRet.val, rcProc.out)
           ELSE rcRet.val = <<>>

\* a command printing " a\n" returned "a", and a failing one returned ""
RunCommandWitness ==
    /\ rcPc = "done"
    /\ rcProc.kind = "exit" /\ rcProc.code = 0 /\ rcProc.dur = 1
    /\ rcProc.out = <<" ", "a", "\n">>
    /\ rcRet = Ret(<<"a">>)

----------------------------------------------------------------------------
(* C3: after benchmark_speed returns, the temp file does not exist, on     *)
(* every return path (result, write phase over the timeout, exception).    *)
TempFileGoneAfterBenchmark ==
    bnPc = "done" => ~fileExists

----------------------------------------------------------------------------
(* C8: benchmark_speed never raises; it returns None exactly when the      *)
(* write phase took longer than the timeout or an exception occurred, and  *)
(* otherwise a record whose two speeds are >= 0, each size_mb divided by   *)
(* the elapsed time of its phase, or 0 when that elapsed time is 0.        *)
\* x == a / b, for b > 0
IsQuotient(x, a, b) == x.den > 0 /\ x.num * b = a * x.den

RatNonNeg(x) == x.den > 0 /\ x.num >= 0

SpeedIs(x, sizeMb, elapsed) ==
    /\ RatNonNeg(x)
    /\ IF elapsed = 0 THEN x.num = 0 ELSE IsQuotient(x, sizeMb, elapsed)

BenchmarkNeverRaises ==
    bnPc = "done" =>
        /\ bnRet.exc = "none"
        /\ (bnRet.val = None) <=> (bnExc # "none" \/ bnWriteTime > bnTimeout)
        /\ bnRet.val # None =>
              /\ SpeedIs(bnRet.val[1].read_mb_s, bnSize, bnReadTime)
              /\ SpeedIs(bnRet.val[1].write_mb_s, bnSize, bnWriteTime)

\* 100 MB written in 2 s and read back in no measurable time
BenchmarkWitness ==
    /\ bnPc = "done"
    /\ bnSize = DefaultSizeMb /\ bnWriteTime = 2 /\ bnReadTime = 0
    /\ bnExc = "none"
    /\ bnRet.val # None
    /\ bnRet.val[1].write_mb_s.num = 50 * bnRet.val[1].write_mb_s.den
    /\ bnRet.val[1].read_mb_s.num = 0

----------------------------------------------------------------------------
(* C6: DiskDetector.detect returns at most 3 entries, and when a system    *)
(* volume (mounted on "/" or "C:\", or with "Windows" in its options) is   *)
(* among the partitions that pass the filter, entry 0 is a system volume.  *)
PassesFilter(p) ==
    /\ p.fstype # <<>>
    /\ ~Contains(p.device, <<"l", "o", "o", "p">>)
    /\ p.usage.exc = "none"

SystemVolume(p) ==
    \/ p.mountpoint = <<"/">>
    \/ p.mountpoint = <<"C", ":", "\\">>
    \/ Contains(p.opts, <<"W", "i", "n", "d", "o", "w", "s">>)

PartitionSet == {partitions[i] : i \in 1..Len(partitions)}

DiskCapAndSystemFirst ==
    (dkPc = "done" /\ dkRet.exc = "none") =>
        /\ Len(dkRet.val) <= 3
        /\ (\E p \in PartitionSet : PassesFilter(p) /\ SystemVolume(p)) =>
              /\ dkRet.val # <<>>
              /\ dkRet.val[1].is_system
              /\ \E p \in PartitionSet :
                    /\ PassesFilter(p) /\ SystemVolume(p)
                    /\ p.mountpoint = dkRet.val[1].mountpoint
                    /\ p.device = dkRet.val[1].device

\* four volumes pass the filter, the system volume enumerated last
DiskCapWitness ==
    /\ dkPc = "done" /\ dkRet.exc = "none"
    /\ Len(partitions) = 4
    /\ \A i \in 1..4 : PassesFilter(partitions[i])
    /\ SystemVolume(partitions[4])
    /\ \A i \in 1..3 : ~SystemVolume(partitions[i])
    /\ Len(dkRet.val) = 3
    /\ dkRet.val[1].mountpoint = partitions[4].mountpoint

----------------------------------------------------------------------------
(* C1: GPUDetector.detect never returns an empty list, whatever the        *)
(* NVIDIA, AMD, Intel and Windows-enumeration sub-probes return; when none *)
(* of them yields a record the result is exactly one record with vendor    *)
(* "Unknown", name "No dedicated GPU detected" and vram_total_gb,          *)
(* vram_used_gb, utilization_percent and temperature_c all 0.              *)
IsPlaceholderGpu(g) ==
    /\ g.vendor = "Unknown"
    /\ g.name = <<"N", "o", " ", "d", "e", "d", "i", "c", "a", "t", "e", "d",
                  " ", "G", "P", "U", " ", "d", "e", "t", "e", "c", "t", "e",
                  "d">>
    /\ g.vram_total_gb.num = 0
    /\ g.vram_used_gb.num = 0
    /\ g.utilization_percent.num = 0
    /\ g.temperature_c # None
    /\ g.temperature_c[1].num = 0

NoSubProbeRecord ==
    /\ gpuCalls.nvidia = <<>>
    /\ gpuCalls.amd = <<>>
    /\ gpuCalls.intel = <<>>
    /\ gpuCalls.wmi = None \/ gpuCalls.wmi = Some(<<>>)

GpuListNeverEmpty ==
    gpuPc = "done" =>
        /\ gpuRet.exc = "none"
        /\ Len(gpuRet.val) >= 1
        /\ NoSubProbeRecord =>
              /\ Len(gpuRet.val) = 1
              /\ IsPlaceholderGpu(gpuRet.val[1])

\* on Windows no vendor tool found a GPU, the enumeration was attempted and
\* listed no GPU either, and the placeholder was returned
GpuPlaceholderWitness ==
    /\ gpuPc = "done"
    /\ IsWindows(platform) /\ wmiAvailable
    /\ gpuCalls.nvidia = <<>> /\ gpuCalls.amd = <<>> /\ gpuCalls.intel = <<>>
    /\ gpuCalls.wmi = Some(<<>>)
    /\ Len(gpuRet.val) = 1
    /\ gpuRet.val[1].vendor = "Unknown"

----------------------------------------------------------------------------
(* C4: no failure inside a probe propagates past its entry point. Stated   *)
(* for DiskDetector.detect, one of the six probes of the claim: whatever   *)
(* the per-partition usage reads do (errors other than permission-denied   *)
(* included), detect returns a value and does not raise.                   *)
DiskProbeNeverRaises ==
    dkPc = "done" => dkRet.exc = "none"

----------------------------------------------------------------------------
(* C5: the snapshot collect_system_info returns has the same set of fields *)
(* on every run, whichever detections succeeded: a call never ends in an   *)
(* exception, and the fields of a returned snapshot are those of the       *)
(* snapshot the previous call returned.                                    *)
SnapshotSchemaStable ==
    /\ coPc # "raised"
    /\ (coPc = "done" /\ prevKeys # None) => DOMAIN info = prevKeys[1]

----------------------------------------------------------------------------
(* C7: in collect_system_info the benchmark is run if and only if the      *)
(* benchmark argument is true and the disk list is not empty; it is run on *)
(* the mountpoint of the disk at index 0; its result is attached under the *)
(* key "benchmark" to that disk entry only, and only when the benchmark    *)
(* returned a result; every other disk entry and every other field of the  *)
(* snapshot is as it was before.                                           *)
BenchmarkRan == \E i \in 1..Len(coStarted) : coStarted[i] = "benchmark"

SameExceptBenchmark(after, before) ==
    /\ DOMAIN after = DOMAIN before \cup {"benchmark"}
    /\ \A k \in DOMAIN before : after[k] = before[k]

BenchmarkOnFirstDiskOnly ==
    coPc = "done" =>
        /\ BenchmarkRan <=> (coBenchmark /\ Len(coBefore["disks"]) > 0)
        /\ BenchmarkRan => bnPath = coBefore["disks"][1].mountpoint
        /\ DOMAIN info = DOMAIN coBefore
        /\ \A k \in DOMAIN info \ {"disks"} : info[k] = coBefore[k]
        /\ Len(info["disks"]) = Len(coBefore["disks"])
        /\ \A i \in 2..Len(info["disks"]) :
              info["disks"][i] = coBefore["disks"][i]
        /\ IF BenchmarkRan /\ bnRet.val # None
           THEN /\ SameExceptBenchmark(info["disks"][1], coBefore["disks"][1])
                /\ info["disks"][1]["benchmark"] = bnRet.val[1]
           ELSE info["disks"] = coBefore["disks"]

\* two disks were found, the benchmark returned a result, and only the
\* first entry carries it
BenchmarkAttachedWitness ==
    /\ coPc = "done"
    /\ coBenchmark
    /\ Len(info["disks"]) = 2
    /\ bnRet.val # None
    /\ "benchmark" \in DOMAIN info["disks"][1]
    /\ "benchmark" \notin DOMAIN info["disks"][2]
    /\ info["disks"][1].mountpoint = <<"/">>

----------------------------------------------------------------------------
(* C9: the disk benchmark is bounded by its own timeout, so that a slow    *)
(* benchmark phase cannot hold collect_system_info up: when a call that    *)
(* ran the benchmark returns, the benchmark took no longer than its        *)
(* timeout.                                                                *)
BenchmarkWithinTimeout ==
    (coPc = "done" /\ BenchmarkRan) => now - bnCalled <= bnTimeout

----------------------------------------------------------------------------
(* C10: within one call of collect_system_info the probes run one at a     *)
(* time in the order OS, uptime, CPU, GPU, memory, disk, battery,          *)
(* motherboard, Apple Silicon, each returning before the next is called,   *)
(* and the benchmark is called only after the disk enumeration returned    *)
(* the disk it targets.                                                    *)
FixedOrder ==
    <<"os", "uptime", "cpu", "gpus", "memory", "disks", "battery",
      "motherboard", "apple_silicon", "benchmark">>

IsPrefix(s, t) ==
    /\ Len(s) <= Len(t)
    /\ \A i \in 1..Len(s) : s[i] = t[i]

ProbesSequentialInOrder ==
    /\ IsPrefix(coStarted, FixedOrder)
    /\ IsPrefix(coReturned, coStarted)
    /\ Len(coStarted) <= Len(coReturned) + 1
    /\ BenchmarkRan =>
          /\ \E j \in 1..Len(coReturned) : coReturned[j] = "disks"
          /\ "disks" \in DOMAIN coBefore
          /\ coBefore["disks"] # <<>>
          /\ bnPath = coBefore["disks"][1].mountpoint

\* a call in which every probe and then the benchmark ran and returned
AllProbesRanWitness ==
    /\ coPc = "done"
    /\ coStarted = FixedOrder
    /\ coReturned = FixedOrder

----------------------------------------------------------------------------
----------------------------------------------------------------------------
(* C12: for every uptime of T >= 0 whole seconds, get_uptime returns       *)
(* fields that agree: 0 <= hours <= 23, 0 <= minutes <= 59, total_seconds  *)
(* is T, and days, hours, minutes and T mod 60 add up to total_seconds     *)
(* (so they are within 60 seconds of it).                                  *)
UptimeFieldsAgree ==
    prCall.fn = "get_uptime" =>
        LET T == prCall.args[1]
            up == prRet.val
            sum == up.days * 86400 + up.hours * 3600 + up.minutes * 60
                   + (T % 60)
        IN /\ prRet.exc = "none"
           /\ up.days >= 0
           /\ 0 <= up.hours /\ up.hours <= 23
           /\ 0 <= up.minutes /\ up.minutes <= 59
           /\ up.total_seconds = T
           /\ sum - up.total_seconds <= 60
           /\ up.total_seconds - sum <= 60
           /\ sum = T

\* an uptime one second short of 3 days: 2 days, 23 hours and 59 minutes
UptimeWitness ==
    /\ prCall.fn = "get_uptime"
    /\ prCall.args[1] = 3 * 86400 - 1
    /\ prRet.val.days = 2
    /\ prRet.val.hours = 23
    /\ prRet.val.minutes = 59

----------------------------------------------------------------------------
(* C13: format_size returns "0 B" exactly for 0 bytes; otherwise the unit  *)
(* is the largest of B, KiB, MiB, GiB, TiB, PiB whose size is at most the  *)
(* byte count, and the value shown is the quotient rounded to one decimal. *)
(* 1024^k bytes read "1.0" of unit k, and a larger byte count never reads  *)
(* less.  As first stated, the value shown is below 1024 for every byte    *)
(* count.                                                                  *)

\* a <= b for two byte counts [m, e] with m < 2^20
LeqBytes(a, b) ==
    IF a.m = 0 THEN TRUE
    ELSE IF b.m = 0 THEN FALSE
    ELSE IF b.e - a.e >= 2 THEN TRUE
    ELSE IF a.e - b.e >= 2 THEN FALSE
    ELSE IF b.e - a.e = 1 THEN a.m <= b.m * 1024
    ELSE IF a.e - b.e = 1 THEN a.m * 1024 <= b.m
    ELSE a.m <= b.m

\* the number in front of the unit, in tenths
ShownTenths(text) ==
    LET number == Split(Split(text, " ")[1], ".") IN
    IF Len(number) = 1 THEN 10 * DigitsValue(number[1])
    ELSE 10 * DigitsValue(number[1]) + DigitsValue(number[2])

\* the position of the unit behind the number, from 0 for B
ShownUnit(text) ==
    (CHOOSE i \in 1..Len(SizeUnits) : SizeUnits[i] = Split(text, " ")[2]) - 1

\* the text has the form of a number of at most one decimal, a space, a unit
IsSizeText(text) ==
    /\ Len(Split(text, " ")) = 2
    /\ Split(text, " ")[2] \in {SizeUnits[i] : i \in 1..Len(SizeUnits)}
    /\ Len(Split(Split(text, " ")[1], ".")) \in {1, 2}
    /\ \A k \in 1..Len(Split(Split(text, " ")[1], ".")) :
          IsDigitText(Split(Split(text, " ")[1], ".")[k])

\* the texts of one call: the unit is the largest one not above the byte
\* count, the number is the quotient rounded to the nearest tenth
SizeTextRight(b, text) ==
    /\ IsSizeText(text)
    /\ (b.m = 0) <=> (text = <<"0", " ", "B">>)
    /\ b.m > 0 =>
          LET i == ShownUnit(text)
              num == IF b.e > i THEN b.m * 1024 ELSE b.m
              den == IF b.e < i THEN 1024 ELSE 1
              diff == 10 * num - ShownTenths(text) * den
          IN /\ LeqBytes([m |-> 1, e |-> i], b)
             /\ i < 5 => ~LeqBytes([m |-> 1, e |-> i + 1], b)
             /\ b.e - i \in {0 - 1, 0, 1}
             /\ 2 * diff <= den /\ 0 - den <= 2 * diff
             /\ ShownTenths(text) >= 10
             /\ ~LeqBytes([m |-> 1, e |-> 6], b) => ShownTenths(text) <= 10240
             /\ (b.m = 1 /\ b.e <= 5) =>
                    text = <<"1", ".", "0", " ">> \o SizeUnits[b.e + 1]

\* from one call to the next: a byte count at least as large reads at least
\* as much
SizeMonotonic ==
    (prCall.fn = "format_size" /\ prCall'.fn = "format_size"
     /\ LeqBytes(prCall.args[1], prCall'.args[1])) =>
        \/ ShownUnit(prRet.val) < ShownUnit(prRet'.val)
        \/ /\ ShownUnit(prRet.val) = ShownUnit(prRet'.val)
           /\ ShownTenths(prRet.val) <= ShownTenths(prRet'.val)

----------------------------------------------------------------------------
(* C14: _detect_disk_type returns "NVMe" for every device path that holds  *)
(* "nvme", whatever the platform and whatever the rotational pseudo-file   *)
(* holds, readable or not.                                                 *)
NvmeByNameAlone ==
    (prCall.fn = "_detect_disk_type"
     /\ Contains(prCall.args[1], <<"n", "v", "m", "e">>)) =>
        prRet = Ret("NVMe")

\* /dev/nvme0n1 on Linux with a rotational pseudo-file that reads "1"
NvmeWitness ==
    /\ prCall.fn = "_detect_disk_type"
    /\ prCall.args = <<DiskText.nvme, Some(DiskText.rotational)>>
    /\ IsLinux(platform)
    /\ prRet = Ret("NVMe")

----------------------------------------------------------------------------
(* C15: the CPU name of a returned CpuInfo is never empty and comes from a *)
(* chain of sources of which the first non-empty one wins: the generic     *)
(* processor identifier, on Windows the wmic answer, on Darwin the sysctl  *)
(* brand string, on Linux the "model name" line.  A command is run only    *)
(* when every earlier source was empty, and the name is "Unknown CPU" when *)
(* the winning text is blank or there is none.  The wmic answer counts as  *)
(* its last line when it has several lines and as "Unknown" when it has    *)
(* one; as first stated, it is the answer without its header line, so that *)
(* a header alone is an empty source.                                      *)

\* the sources of the platform in order, each with the command run for it;
\* wmicAlone is what a wmic answer of a single line counts as
CpuSources(plat, host, wmicAlone) ==
    LET out == RunCommand(host.wmic, DefaultCmdTimeout).val
        lines == SplitLines(out)
    IN <<[cmd |-> "generic", text |-> host.processor]>>
       \o (IF IsWindows(plat)
           THEN <<[cmd |-> "wmic",
                   text |-> IF out = <<>> THEN <<>>
                            ELSE IF Len(lines) > 1 THEN Strip(lines[Len(lines)])
                            ELSE wmicAlone]>>
           ELSE <<>>)
       \o (IF IsDarwin(plat)
           THEN <<[cmd |-> "sysctl",
                   text |-> RunCommand(host.sysctl, DefaultCmdTimeout).val]>>
           ELSE <<>>)
       \o (IF IsLinux(plat)
           THEN <<[cmd |-> "cpuinfo",
                   text |-> RunCommand(host.cpuinfo, DefaultCmdTimeout).val]>>
           ELSE <<>>)

\* the position of the first source that is not empty, or the last position
WinnerOf(sources) ==
    IF \E i \in 1..Len(sources) : sources[i].text # <<>>
    THEN CHOOSE i \in 1..Len(sources) :
             /\ sources[i].text # <<>>
             /\ \A j \in 1..(i - 1) : sources[j].text = <<>>
    ELSE Len(sources)

\* the name and the commands run are those of the chain over the sources
FollowsChain(sources, name, queried) ==
    /\ name # <<>>
    /\ queried = [i \in 1..(WinnerOf(sources) - 1) |-> sources[i + 1].cmd]
    /\ name = IF Strip(sources[WinnerOf(sources)].text) # <<>>
              THEN Strip(sources[WinnerOf(sources)].text)
              ELSE UnknownCpu

CpuNameChainAsCoded ==
    (prCall.fn = "CPUDetector.detect" /\ prRet.exc = "none") =>
        FollowsChain(CpuSources(platform, prCall.args[1],
                                <<"U", "n", "k", "n", "o", "w", "n">>),
                     prRet.val.name, prCall.queried)

\* the claim as first stated: a wmic answer that is a header alone is empty
CpuNameFirstNonEmptySource ==
    (prCall.fn = "CPUDetector.detect" /\ prRet.exc = "none") =>
        FollowsChain(CpuSources(platform, prCall.args[1], <<>>),
                     prRet.val.name, prCall.queried)

\* on Windows with no generic identifier and a wmic answer of one line
CpuNameWitness ==
    /\ prCall.fn = "CPUDetector.detect"
    /\ prRet.exc = "none"
    /\ IsWindows(platform)
    /\ prCall.args[1].processor = <<>>
    /\ prCall.args[1].wmic = Prints(HostText.wmic_header)
    /\ prCall.queried = <<"wmic">>
    /\ prRet.val.name = <<"U", "n", "k", "n", "o", "w", "n">>

----------------------------------------------------------------------------
(* C16: in a returned CpuInfo each core count is a number, never null and  *)
(* never negative: 0 when psutil.cpu_count cannot tell, the reported count *)
(* otherwise; and logical >= physical whenever the logical count could be  *)
(* told.  As first stated, logical >= physical in every CpuInfo.           *)

\* psutil.cpu_count(...) or 0
CountOrZero(reported) == IF reported = None THEN 0 ELSE reported[1]

\* each count is the number CountOrZero gives, hence not null
CoreCountsNumbers ==
    /\ prRet.val.cores_physical = CountOrZero(prCall.args[1].cores_physical)
    /\ prRet.val.cores_logical = CountOrZero(prCall.args[1].cores_logical)
    /\ prRet.val.cores_physical >= 0
    /\ prRet.val.cores_logical >= 0

----------------------------------------------------------------------------
(* C17: MotherboardDetector.detect always returns a text, never null and   *)
(* never an exception: on Windows with WMI the manufacturer and product of *)
(* the first base board joined by a space, on Linux the two pseudo-file    *)
(* reads joined by a space when both are non-empty, and "N/A" in every     *)
(* other case, a raising WMI query included.                               *)

\* the WMI query listed a first board whose two texts can be stripped
FirstBoardRead(host) ==
    /\ host.boards.exc = "none"
    /\ host.boards.val # <<>>
    /\ host.boards.val[1].Manufacturer # None
    /\ host.boards.val[1].Product # None

BoardAlwaysText ==
    prCall.fn = "MotherboardDetector.detect" =>
        LET host == prCall.args[1]
            vendor == RunCommand(host.board_vendor, DefaultCmdTimeout).val
            name == RunCommand(host.board_name, DefaultCmdTimeout).val
        IN /\ prRet.exc = "none"
           /\ prRet.val # None
           /\ \A i \in 1..Len(prRet.val) : prRet.val[i] \in STRING
           /\ prRet.val =
                 IF IsWindows(platform) /\ wmiAvailable /\ FirstBoardRead(host)
                 THEN Strip(host.boards.val[1].Manufacturer[1]) \o <<" ">>
                      \o Strip(host.boards.val[1].Product[1])
                 ELSE IF IsLinux(platform) /\ vendor # <<>> /\ name # <<>>
                 THEN vendor \o <<" ">> \o name
                 ELSE NotAvailable

\* on Windows the WMI query raises and the answer is "N/A"
BoardWitness ==
    /\ prCall.fn = "MotherboardDetector.detect"
    /\ IsWindows(platform)
    /\ wmiAvailable
    /\ prCall.args[1].boards.exc = "OSError"
    /\ prRet = Ret(NotAvailable)

----------------------------------------------------------------------------
(* C18: in every BatteryInfo that BatteryDetector.detect returns, the raw  *)
(* seconds left are >= 0: 0 when psutil reports one of its negative        *)
(* sentinels (unknown, unlimited), the reported seconds otherwise.         *)
BatterySecondsNonNegative ==
    (prCall.fn = "BatteryDetector.detect" /\ prRet.val # None) =>
        LET reported == prCall.args[1].val[1].secsleft IN
        /\ prRet.exc = "none"
        /\ prRet.val[1].time_left_seconds >= 0
        /\ reported < 0 => prRet.val[1].time_left_seconds = 0
        /\ reported >= 0 => prRet.val[1].time_left_seconds = reported

\* a battery off the mains whose seconds left are unknown
BatteryWitness ==
    /\ prCall.fn = "BatteryDetector.detect"
    /\ prRet.val # None
    /\ ~prCall.args[1].val[1].power_plugged
    /\ prCall.args[1].val[1].secsleft = PowerTimeUnknown
    /\ prRet.val[1].time_left_seconds = 0

----------------------------------------------------------------------------
(* C19: off Darwin, AppleSiliconDetector.detect returns absent and runs no *)
(* command; on Darwin it returns absent when the brand string is empty or  *)
(* has no "Apple" in it; a record is returned only on Darwin for a brand   *)
(* string holding "Apple".                                                 *)
AppleSiliconOnlyOnDarwin ==
    prCall.fn = "AppleSiliconDetector.detect" =>
        LET chip == RunCommand(prCall.args[1].brand, DefaultCmdTimeout).val
            apple == Contains(chip, <<"A", "p", "p", "l", "e">>)
        IN /\ prRet.exc = "none"
           /\ ~IsDarwin(platform) =>
                 prRet.val = None /\ prCall.queried = <<>>
           /\ (IsDarwin(platform) /\ (chip = <<>> \/ ~apple)) =>
                 prRet.val = None
           /\ prRet.val # None => (IsDarwin(platform) /\ apple)
           /\ (IsDarwin(platform) /\ apple) =>
                 prRet.val # None /\ prRet.val[1].chip = chip

\* on Linux, where the brand string would have named an Apple chip
AppleSiliconWitness ==
    /\ prCall.fn = "AppleSiliconDetector.detect"
    /\ IsLinux(platform)
    /\ prCall.args[1].brand = Prints(HostText.brand_apple)
    /\ prCall.queried = <<>>
    /\ prRet = Ret(None)

----------------------------------------------------------------------------
----------------------------------------------------------------------------
(* C21: DiskDetector.detect returns the first three of the surviving       *)
(* partitions sorted by (not is_system, mount path): in the result every   *)
(* system volume precedes every non-system volume, volumes of one kind are *)
(* in lexicographic mount-path order, and the cut to three comes after the *)
(* sort, so that no entry left out sorts before an entry that was kept and *)
(* no non-system volume is kept while a system volume is left out.         *)
\* a sorts strictly before b
SortsBefore(a, b) ==
    \/ a.is_system /\ ~b.is_system
    \/ a.is_system = b.is_system /\ TextLess(a.mountpoint, b.mountpoint)

SystemCount(disks) == Cardinality({i \in 1..Len(disks) : disks[i].is_system})

SortedThenCut ==
    (dkPc = "done" /\ dkRet.exc = "none") =>
        LET kept == dkRet.val
            survivors == dkScan.val
        IN /\ Len(kept) = IF Len(survivors) < 3 THEN Len(survivors) ELSE 3
           /\ \A i, j \in 1..Len(kept) :
                 i < j =>
                    /\ ~SortsBefore(kept[j], kept[i])
                    /\ kept[j].is_system => kept[i].is_system
                    /\ kept[i].is_system = kept[j].is_system =>
                          ~TextLess(kept[j].mountpoint, kept[i].mountpoint)
           /\ \E f \in [1..Len(kept) -> 1..Len(survivors)] :
                 /\ \A i, j \in 1..Len(kept) : f[i] = f[j] => i = j
                 /\ \A i \in 1..Len(kept) : survivors[f[i]] = kept[i]
                 /\ \A k \in 1..Len(survivors) :
                       (\A i \in 1..Len(kept) : f[i] # k) =>
                          \A i \in 1..Len(kept) :
                             ~SortsBefore(survivors[k], kept[i])
           /\ (\E i \in 1..Len(kept) : ~kept[i].is_system) =>
                 SystemCount(kept) = SystemCount(survivors)

\* four partitions survive, two non-system volumes enumerated first in
\* descending mount-path order and two system volumes after them: the
\* system volumes come first in the result and the non-system volume
\* enumerated first is the one left out
SortedThenCutWitness ==
    /\ dkPc = "done" /\ dkRet.exc = "none"
    /\ Len(dkScan.val) = 4
    /\ \A i \in 1..2 : ~dkScan.val[i].is_system
    /\ \A i \in 3..4 : dkScan.val[i].is_system
    /\ TextLess(dkScan.val[2].mountpoint, dkScan.val[1].mountpoint)
    /\ TextLess(dkScan.val[4].mountpoint, dkScan.val[3].mountpoint)
    /\ dkRet.val = <<dkScan.val[4], dkScan.val[3], dkScan.val[2]>>

----------------------------------------------------------------------------
(* C22: in DiskDetector.detect an enumerated partition is a candidate for  *)
(* the result if and only if its filesystem type is non-empty, its device  *)
(* path does not contain "loop" and reading its usage does not raise a     *)
(* permission error; a partition whose usage read raises a permission      *)
(* error is skipped and the partitions enumerated after it are still       *)
(* processed. (A call that raises has no result: it is left by a usage     *)
(* read failing with another error, never by a permission error.)          *)
Enumerated(i) ==
    /\ partitions[i].fstype # <<>>
    /\ ~Contains(partitions[i].device, <<"l", "o", "o", "p">>)

IsCandidate(i) ==
    Enumerated(i) /\ partitions[i].usage.exc # "PermissionError"

CandidateIndices == {i \in 1..Len(partitions) : IsCandidate(i)}

\* the k-th candidate in enumeration order
CandidateAt(k) ==
    CHOOSE i \in CandidateIndices :
        Cardinality({j \in CandidateIndices : j <= i}) = k

CandidatesExactlyFiltered ==
    dkPc = "done" =>
        /\ dkRet.exc = "none" =>
              /\ dkScan.exc = "none"
              /\ Len(dkScan.val) = Cardinality(CandidateIndices)
              /\ \A k \in 1..Len(dkScan.val) :
                    LET p == partitions[CandidateAt(k)] IN
                    /\ dkScan.val[k].mountpoint = p.mountpoint
                    /\ dkScan.val[k].device = p.device
                    /\ dkScan.val[k].fstype = p.fstype
                    /\ p.usage.exc = "none"
                    /\ dkScan.val[k].total_bytes = p.usage.val.total
              /\ Len(dkScan.val) <= 3 =>
                    \A k \in 1..Len(dkScan.val) :
                       \E i \in 1..Len(dkRet.val) : dkRet.val[i] = dkScan.val[k]
        /\ dkRet.exc # "none" =>
              /\ dkRet.exc # "PermissionError"
              /\ \E i \in 1..Len(partitions) :
                    Enumerated(i) /\ partitions[i].usage.exc = dkRet.exc

\* the first partition denies its usage, the second has no filesystem type,
\* the third is a loop device, and the volume enumerated after them is the
\* result
DeniedPartitionSkippedWitness ==
    /\ dkPc = "done" /\ dkRet.exc = "none"
    /\ Len(partitions) = 4
    /\ Enumerated(1) /\ partitions[1].usage.exc = "PermissionError"
    /\ partitions[2].fstype = <<>>
    /\ Contains(partitions[3].device, <<"l", "o", "o", "p">>)
    /\ IsCandidate(4)
    /\ Len(dkRet.val) = 1
    /\ dkRet.val[1].mountpoint = partitions[4].mountpoint

----------------------------------------------------------------------------
(* C23: _detect_disk_type decides in a fixed order, for every device path: *)
(* "nvme" in the path gives NVMe; else on Linux, when the rotational       *)
(* pseudo-file of the base device name is readable, content "0" gives SSD  *)
(* and any other content HDD; else (not Linux, no base name, or the read   *)
(* failed) "ssd" in the path gives SSD; otherwise Unknown.  HDD is         *)
(* returned only on Linux with a readable flag other than "0".  The path   *)
(* is matched in lower case and the content without surrounding blanks,    *)
(* as the code does.                                                       *)
PathHolds(text) == Contains(Lower(prCall.args[1]), text)

FlagRead ==
    /\ IsLinux(platform)
    /\ HasDevName(Lower(prCall.args[1]))
    /\ prCall.args[2] # None

FlagIsZero == Strip(prCall.args[2][1]) = <<"0">>

DiskTypeDecisionOrder ==
    prCall.fn = "_detect_disk_type" =>
        /\ prRet.exc = "none"
        /\ prRet.val \in {"NVMe", "SSD", "HDD", "Unknown"}
        /\ PathHolds(<<"n", "v", "m", "e">>) => prRet.val = "NVMe"
        /\ (~PathHolds(<<"n", "v", "m", "e">>) /\ FlagRead) =>
              /\ FlagIsZero => prRet.val = "SSD"
              /\ ~FlagIsZero => prRet.val = "HDD"
        /\ (~PathHolds(<<"n", "v", "m", "e">>) /\ ~FlagRead) =>
              /\ PathHolds(<<"s", "s", "d">>) => prRet.val = "SSD"
              /\ ~PathHolds(<<"s", "s", "d">>) => prRet.val = "Unknown"
        /\ prRet.val = "HDD" =>
              /\ ~PathHolds(<<"n", "v", "m", "e">>)
              /\ FlagRead /\ ~FlagIsZero

\* /dev/sdassd on Linux with a pseudo-file that reads "1": HDD, although
\* the path holds "ssd"
DiskTypeOrderWitness ==
    /\ prCall.fn = "_detect_disk_type"
    /\ IsLinux(platform)
    /\ prCall.args = <<<<"/", "d", "e", "v", "/", "s", "d", "a", "s", "s",
                         "d">>, Some(DiskText.rotational)>>
    /\ prRet = Ret("HDD")

----------------------------------------------------------------------------
(* C24: GPUDetector.detect runs the NVIDIA, AMD and Intel sub-probes, each *)
(* whatever the earlier ones returned, and returns their records in that   *)
(* order; the Windows device enumeration is attempted only when the three  *)
(* returned no record and the host is Windows-family, and every record it  *)
(* gives is of a device whose name holds one of the brand keywords.        *)
VendorRecords == gpuCalls.nvidia \o gpuCalls.amd \o gpuCalls.intel

HoldsBrandKeyword(name) ==
    \/ Contains(name, <<"N", "V", "I", "D", "I", "A">>)
    \/ Contains(name, <<"A", "M", "D">>)
    \/ Contains(name, <<"I", "n", "t", "e", "l">>)
    \/ Contains(name, <<"R", "a", "d", "e", "o", "n">>)
    \/ Contains(name, <<"G", "e", "F", "o", "r", "c", "e">>)

SubProbesInFixedOrder ==
    gpuPc = "done" =>
        /\ gpuRet.exc = "none"
        /\ VendorRecords # <<>> =>
              /\ gpuRet.val = VendorRecords
              /\ gpuCalls.wmi = None
        /\ gpuCalls.wmi # None =>
              /\ VendorRecords = <<>>
              /\ IsWindows(platform)
              /\ gpuCalls.wmi[1] # <<>> => gpuRet.val = gpuCalls.wmi[1]
              /\ \A i \in 1..Len(gpuCalls.wmi[1]) :
                    /\ gpuCalls.wmi[1][i].vendor = "Integrated/Discrete"
                    /\ HoldsBrandKeyword(gpuCalls.wmi[1][i].name)

\* the three vendor tools each gave a record on a Windows host with the
\* enumeration available: the result is the three records in the order
\* NVIDIA, AMD, Intel and the enumeration was not attempted
ThreeVendorsWitness ==
    /\ gpuPc = "done"
    /\ IsWindows(platform) /\ wmiAvailable
    /\ Len(gpuCalls.nvidia) = 1 /\ Len(gpuCalls.amd) = 1
    /\ Len(gpuCalls.intel) = 1
    /\ gpuCalls.wmi = None
    /\ Len(gpuRet.val) = 3
    /\ gpuRet.val[1].vendor = "NVIDIA"
    /\ gpuRet.val[2].vendor = "AMD"
    /\ gpuRet.val[3].vendor = "Intel"

----------------------------------------------------------------------------
(* C25: in the NVIDIA sub-probe each output line is handled on its own: a  *)
(* malformed line (fewer than five fields, or a memory, utilization or     *)
(* temperature field that is not a number) is skipped without effect on    *)
(* the records of the other lines; a well-formed line gives one record,    *)
(* with the memory figures divided by 1024 and the temperature absent when *)
(* the tool reports "[N/A]".  A line of more than five fields is           *)
(* well-formed by its first five; as first stated, a line of other than    *)
(* exactly five fields is skipped.                                         *)
NvFields(line) ==
    LET fields == Split(line, ",")
    IN [i \in 1..Len(fields) |-> Strip(fields[i])]

IsNumberText(text) == ParseFloat(text).exc = "none"

NotReported == <<"[", "N", "/", "A", "]">>

NumbersInPlace(line) ==
    /\ \A i \in 2..4 : IsNumberText(NvFields(line)[i])
    /\ NvFields(line)[5] = NotReported \/ IsNumberText(NvFields(line)[5])

WellFormed(line) == Len(NvFields(line)) >= 5 /\ NumbersInPlace(line)

ExactlyFiveFields(line) == Len(NvFields(line)) = 5 /\ NumbersInPlace(line)

\* the lines the sub-probe reads: none when the tool is missing or fails
NvOutputLines ==
    IF prCall.args[1].which
    THEN SplitLines(RunCommand(prCall.args[1].proc, DefaultCmdTimeout).val)
    ELSE <<>>

WellFormedIndices == {i \in 1..Len(NvOutputLines) : WellFormed(NvOutputLines[i])}

\* the k-th well-formed line of the output
WellFormedAt(k) ==
    NvOutputLines[CHOOSE i \in WellFormedIndices :
                     Cardinality({j \in WellFormedIndices : j <= i}) = k]

RecordOfLine(g, line) ==
    LET f == NvFields(line) IN
    /\ g.vendor = "NVIDIA"
    /\ g.name = f[1]
    /\ IsQuotient(g.vram_total_gb, ParseFloat(f[2]).val, 1024)
    /\ IsQuotient(g.vram_used_gb, ParseFloat(f[3]).val, 1024)
    /\ IsQuotient(g.utilization_percent, ParseFloat(f[4]).val, 1)
    /\ (g.temperature_c = None) <=> (f[5] = NotReported)
    /\ g.temperature_c # None =>
          IsQuotient(g.temperature_c[1], ParseFloat(f[5]).val, 1)

NvidiaLinesIndependent ==
    prCall.fn = "_detect_nvidia" =>
        /\ prRet.exc = "none"
        /\ Len(prRet.val) = Cardinality(WellFormedIndices)
        /\ \A k \in 1..Len(prRet.val) :
              RecordOfLine(prRet.val[k], WellFormedAt(k))

\* as first stated: the records are those of the lines of exactly five
\* fields
NvidiaLinesOfFiveFields ==
    prCall.fn = "_detect_nvidia" =>
        Len(prRet.val) =
            Cardinality({i \in 1..Len(NvOutputLines) :
                            ExactlyFiveFields(NvOutputLines[i])})

\* a line with "[N/A]" for the memory total, then a line with "[N/A]" for
\* the temperature: one record, of the second line, 8192 MiB as 8 GB
NvidiaLinesWitness ==
    /\ prCall.fn = "_detect_nvidia"
    /\ NvOutputLines = <<GpuText.nv_bad_number, GpuText.nv_no_temp>>
    /\ Len(prRet.val) = 1
    /\ prRet.val[1].name = <<"G", "T", "X">>
    /\ prRet.val[1].vram_total_gb.num = 8 * prRet.val[1].vram_total_gb.den
    /\ prRet.val[1].temperature_c = None

----------------------------------------------------------------------------
(* C26: the AMD sub-probe returns no record when rocm-smi is absent or its *)
(* name query gives no output, and otherwise exactly one record with       *)
(* vendor "AMD", VRAM total and used and utilization 0 and no temperature, *)
(* whatever the memory, temperature and utilization queries print.  Its    *)
(* name is the text between the first and the second colon of the first    *)
(* line that holds "GPU" or "Card" and a colon, and "AMD GPU" when there   *)
(* is no such line; as first stated, it is the text after the first colon  *)
(* of the first line holding "GPU" or "Card".                              *)
HasColon(line) == \E i \in 1..Len(line) : line[i] = ":"

FirstColon(line) ==
    CHOOSE i \in 1..Len(line) :
        line[i] = ":" /\ \A j \in 1..(i - 1) : line[j] # ":"

AfterFirstColon(line) ==
    IF HasColon(line)
    THEN SubSeq(line, FirstColon(line) + 1, Len(line))
    ELSE <<>>

BetweenColons(line) ==
    LET rest == AfterFirstColon(line) IN
    IF HasColon(rest) THEN SubSeq(rest, 1, FirstColon(rest) - 1) ELSE rest

NamesGpu(line) ==
    Contains(line, <<"G", "P", "U">>) \/ Contains(line, <<"C", "a", "r", "d">>)

\* what the name query printed; nothing when the tool is missing or fails
AmdNameOutput ==
    IF prCall.args[1].which
    THEN RunCommand(prCall.args[1].proc, DefaultCmdTimeout).val
    ELSE <<>>

AmdNameLines == SplitLines(AmdNameOutput)

NamedWithColon(line) == NamesGpu(line) /\ HasColon(line)

\* the first line that holds "GPU" or "Card"
FirstNamingLine ==
    AmdNameLines[CHOOSE i \in 1..Len(AmdNameLines) :
                    /\ NamesGpu(AmdNameLines[i])
                    /\ \A j \in 1..(i - 1) : ~NamesGpu(AmdNameLines[j])]

\* the first line that holds "GPU" or "Card", and a colon
FirstNamingLineWithColon ==
    AmdNameLines[CHOOSE i \in 1..Len(AmdNameLines) :
                    /\ NamedWithColon(AmdNameLines[i])
                    /\ \A j \in 1..(i - 1) : ~NamedWithColon(AmdNameLines[j])]

AmdRecordShape ==
    /\ prRet.exc = "none"
    /\ AmdNameOutput = <<>> => prRet.val = <<>>
    /\ AmdNameOutput # <<>> =>
          /\ Len(prRet.val) = 1
          /\ prRet.val[1].vendor = "AMD"
          /\ prRet.val[1].vram_total_gb.num = 0
          /\ prRet.val[1].vram_used_gb.num = 0
          /\ prRet.val[1].utilization_percent.num = 0
          /\ prRet.val[1].temperature_c = None

AmdOneRecordNamedByLine ==
    prCall.fn = "_detect_amd" =>
        /\ AmdRecordShape
        /\ AmdNameOutput # <<>> =>
              prRet.val[1].name =
                  IF \E i \in 1..Len(AmdNameLines) :
                        NamedWithColon(AmdNameLines[i])
                  THEN Strip(BetweenColons(FirstNamingLineWithColon))
                  ELSE <<"A", "M", "D", " ", "G", "P", "U">>

\* as first stated: the whole text after the first colon of the first line
\* that holds "GPU" or "Card"
AmdNameAfterFirstColon ==
    (prCall.fn = "_detect_amd" /\ AmdNameOutput # <<>>) =>
        /\ \E i \in 1..Len(AmdNameLines) : NamesGpu(AmdNameLines[i])
        /\ prRet.val[1].name = Strip(AfterFirstColon(FirstNamingLine))

\* rocm-smi printed "Card: RX: XT" and the use query hung: one AMD record
\* named "RX"
AmdRecordWitness ==
    /\ prCall.fn = "_detect_amd"
    /\ prCall.args = <<Tool(TRUE, Prints(GpuText.amd_two_colons)), Hangs>>
    /\ Len(prRet.val) = 1
    /\ prRet.val[1].name = <<"R", "X">>
    /\ prRet.val[1].vendor = "AMD"

----------------------------------------------------------------------------
(* C27: _get_temperature returns the first reading of the first non-empty  *)
(* group among coretemp, cpu_thermal, k10temp, zenpower, taken in that     *)
(* order of preference; when none of them has a reading, the first reading *)
(* of the first non-empty group of any name; and None, not 0, when there   *)
(* is no reading at all or psutil has no sensors_temperatures.  (An error  *)
(* of another class raised by the sensor call leaves the function.)        *)
SensorGroups == prCall.args[1].val

PreferenceOrder == <<"coretemp", "cpu_thermal", "k10temp", "zenpower">>

\* the places in the order of preference whose group has a reading
PreferredWithReading ==
    {k \in 1..Len(PreferenceOrder) :
        \E i \in 1..Len(SensorGroups) :
           /\ SensorGroups[i].name = PreferenceOrder[k]
           /\ SensorGroups[i].readings # <<>>}

GroupsWithReading ==
    {i \in 1..Len(SensorGroups) : SensorGroups[i].readings # <<>>}

Least(S) == CHOOSE k \in S : \A m \in S : k <= m

GroupNamed(name) ==
    SensorGroups[CHOOSE i \in 1..Len(SensorGroups) :
                    SensorGroups[i].name = name]

TemperatureByPreference ==
    prCall.fn = "_get_temperature" =>
        /\ prCall.args[1].exc = "AttributeError" => prRet = Ret(None)
        /\ prCall.args[1].exc \notin {"none", "AttributeError", "KeyError"} =>
              prRet.exc = prCall.args[1].exc
        /\ prCall.args[1].exc = "none" =>
              /\ prRet.exc = "none"
              /\ PreferredWithReading # {} =>
                    prRet.val =
                        Some(GroupNamed(PreferenceOrder[
                                 Least(PreferredWithReading)]).readings[1])
              /\ (PreferredWithReading = {} /\ GroupsWithReading # {}) =>
                    prRet.val =
                        Some(SensorGroups[Least(GroupsWithReading)].readings[1])
              /\ GroupsWithReading = {} => prRet.val = None

\* k10temp listed before coretemp, both with readings: the first reading of
\* coretemp is returned
TemperatureWitness ==
    /\ prCall.fn = "_get_temperature"
    /\ prCall.args[1] = Ret(<<[name |-> "k10temp", readings |-> <<40>>],
                              [name |-> "coretemp", readings |-> <<55, 57>>]>>)
    /\ prRet = Ret(Some(55))

----------------------------------------------------------------------------
(* C28: the time-left label of a BatteryInfo is decided in a fixed         *)
(* priority: "Charging" whenever the battery is plugged in, whatever the   *)
(* seconds left; else "Unlimited" or "Unknown" for the two sentinels of    *)
(* psutil; else "<h>h <m>m" with h the whole hours in the seconds left and *)
(* m the whole minutes of the rest, so that 0 <= m <= 59.                  *)
SensedBattery == prCall.args[1].val[1]

HoursAndMinutes(label, seconds) ==
    \E h \in 0..24, m \in 0..59 :
        /\ label = IntToText(h) \o <<"h", " ">> \o IntToText(m) \o <<"m">>
        /\ 3600 * h + 60 * m <= seconds
        /\ seconds < 3600 * h + 60 * m + 60

TimeLeftLabelPriority ==
    (prCall.fn = "BatteryDetector.detect" /\ prRet.val # None) =>
        LET label == prRet.val[1].time_left
            seconds == SensedBattery.secsleft
        IN /\ SensedBattery.power_plugged =>
                 label = <<"C", "h", "a", "r", "g", "i", "n", "g">>
           /\ (~SensedBattery.power_plugged /\ seconds = 0 - 2) =>
                 label = <<"U", "n", "l", "i", "m", "i", "t", "e", "d">>
           /\ (~SensedBattery.power_plugged /\ seconds = 0 - 1) =>
                 label = <<"U", "n", "k", "n", "o", "w", "n">>
           /\ (~SensedBattery.power_plugged /\ seconds >= 0) =>
                 HoursAndMinutes(label, seconds)

\* 5400 seconds left off the mains read "1h 30m"
TimeLeftLabelWitness ==
    /\ prCall.fn = "BatteryDetector.detect"
    /\ prRet.val # None
    /\ ~SensedBattery.power_plugged
    /\ SensedBattery.secsleft = 5400
    /\ prRet.val[1].time_left = <<"1", "h", " ", "3", "0", "m">>

----------------------------------------------------------------------------
(* C29: every record GPUDetector.detect returns has                        *)
(* 0 <= vram_used_gb <= vram_total_gb whenever the total is known          *)
(* (not zero), for every output of the vendor tools and of the device      *)
(* enumeration.                                                            *)
RatLeq(x, y) == x.num * y.den <= y.num * x.den

VramUsedWithinTotal ==
    gpuPc = "done" =>
        \A i \in 1..Len(gpuRet.val) :
           gpuRet.val[i].vram_total_gb.num # 0 =>
              /\ RatLeq(Zero, gpuRet.val[i].vram_used_gb)
              /\ RatLeq(gpuRet.val[i].vram_used_gb,
                        gpuRet.val[i].vram_total_gb)

----------------------------------------------------------------------------
(* C30: the "No dedicated GPU detected" record is never mixed with real    *)
(* records: it is in the result of GPUDetector.detect if and only if every *)
(* sub-probe, the Windows enumeration included when it was attempted,      *)
(* returned no record, and it is then the only element; whenever a         *)
(* sub-probe returned a record, no record of the result has vendor         *)
(* "Unknown".                                                              *)
SomeSubProbeRecord ==
    \/ gpuCalls.nvidia # <<>>
    \/ gpuCalls.amd # <<>>
    \/ gpuCalls.intel # <<>>
    \/ gpuCalls.wmi # None /\ gpuCalls.wmi[1] # <<>>

IsSentinelRecord(g) ==
    /\ g.vendor = "Unknown"
    /\ g.name = <<"N", "o", " ", "d", "e", "d", "i", "c", "a", "t", "e", "d",
                  " ", "G", "P", "U", " ", "d", "e", "t", "e", "c", "t", "e",
                  "d">>

SentinelNeverMixed ==
    gpuPc = "done" =>
        /\ (\E i \in 1..Len(gpuRet.val) : IsSentinelRecord(gpuRet.val[i]))
              <=> ~SomeSubProbeRecord
        /\ ~SomeSubProbeRecord => Len(gpuRet.val) = 1
        /\ SomeSubProbeRecord =>
              \A i \in 1..Len(gpuRet.val) : gpuRet.val[i].vendor # "Unknown"

\* no vendor tool gave a record and the enumeration listed two devices: the
\* result is the two devices, without the placeholder
SentinelNotMixedWitness ==
    /\ gpuPc = "done"
    /\ gpuCalls.nvidia = <<>> /\ gpuCalls.amd = <<>> /\ gpuCalls.intel = <<>>
    /\ gpuCalls.wmi # None
    /\ Len(gpuCalls.wmi[1]) = 2
    /\ gpuRet.val = gpuCalls.wmi[1]
    /\ \A i \in 1..2 : gpuRet.val[i].vendor = "Integrated/Discrete"

=============================================================================
